---- MODULE Spec2Model ----
(***************************************************************************)
(* Model of the mqtt-llm bridge: the inbound MQTT callback, the bridge's   *)
(* message handler, and the publish path of MQTTClient (chunking,          *)
(* sanitizing, template formatting).                                       *)
(*                                                                         *)
(* Text is a sequence of one-character strings; Python's 0-based index i   *)
(* is the model's index i + 1, and the slice text[a:b] is                  *)
(* SubSeq(text, a + 1, b).                                                 *)
(***************************************************************************)
EXTENDS Integers, Sequences, FiniteSets, TLC

VARIABLES
    arg,            \* input of the function under study (pure-function specifications)
    ret,            \* its result, or Pending before the call
    config,         \* the MQTTConfig values MQTTClient reads (fixed at start)
    client,         \* MQTTClient.client: "client" or None
    connected,      \* MQTTClient.connected
    transport,      \* the paho network thread: "running" or "stopped"
    session,        \* OllamaClient.session: "open" or None
    loop,           \* the asyncio event loop: "running" or "closed"
    shutdown_event, \* MQTTLLMBridge.shutdown_event
    tasks,          \* one record per inbound message, in arrival order
    events,         \* per inbound message, what happened to it, in order
    calls           \* the publish_response calls made, in order, with their outcome

vars == <<arg, ret, config, client, connected, transport, session, loop,
          shutdown_event, tasks, events, calls>>
bridge_vars == <<config, client, connected, transport, session, loop,
                 shutdown_event, tasks, events, calls>>

None == "None"
Pending == [done |-> FALSE]

Min(a, b) == IF a < b THEN a ELSE b
Max(a, b) == IF a > b THEN a ELSE b

(***************************************************************************)
(* Bounded input domains.                                                  *)
(***************************************************************************)
MaxTextLen == 7
MaxChunkSize == 10

RECURSIVE SeqsUpTo(_, _)
SeqsUpTo(S, n) ==
    IF n = 0 THEN {<<>>}
    ELSE LET shorter == SeqsUpTo(S, n - 1)
         IN shorter \cup {Append(s, c) : s \in {t \in shorter : Len(t) = n - 1}, c \in S}

\* a letter, a whitespace break character, a punctuation break character
ChunkAlphabet == {"a", " ", "."}

(***************************************************************************)
(* str.rstrip() / str.strip() / str.split(): Python whitespace.            *)
(***************************************************************************)
Whitespace == {" ", "\n", "\t", "\r"}

RECURSIVE RStrip(_)
RStrip(s) ==
    IF s = <<>> THEN s
    ELSE IF s[Len(s)] \in Whitespace THEN RStrip(SubSeq(s, 1, Len(s) - 1))
    ELSE s

RECURSIVE LStrip(_)
LStrip(s) ==
    IF s = <<>> THEN s
    ELSE IF s[1] \in Whitespace THEN LStrip(Tail(s))
    ELSE s

Strip(s) == LStrip(RStrip(s))

(***************************************************************************)
(* MQTTClient._chunk_text                                                  *)
(***************************************************************************)
BreakChars == {" ", "\n", "\t", ".", "!", "?", ";", ","}
look_back_div == 5
look_back_cap == 50

\* a search that breaks one character after the break character's successor
RECURSIVE FindBreakPoint_PastBreak(_, _, _, _)
FindBreakPoint_PastBreak(text, i, search_start, end) ==
    IF i < search_start THEN end
    ELSE IF text[i + 1] \in BreakChars THEN i + 2
    ELSE FindBreakPoint_PastBreak(text, i - 1, search_start, end)

\* the for loop of lines 411-414: i runs from end - 1 down to search_start
RECURSIVE FindBreakPoint(_, _, _, _)
FindBreakPoint(text, i, search_start, end) ==
    IF i < search_start THEN end
    ELSE IF text[i + 1] \in BreakChars THEN i + 1
    ELSE FindBreakPoint(text, i - 1, search_start, end)

\* a search for the break character over the whole window
break_point_WholeWindow(text, chunk_size, start) ==
    LET end == start + chunk_size
    IN FindBreakPoint(text, end - 1, start, end)

\* lines 403-414: the cursor after the chunk that starts at start, when the
\* rest of the text does not fit in one chunk
break_point(text, chunk_size, start) ==
    LET end == start + chunk_size
        look_back == Min(chunk_size \div look_back_div, look_back_cap)
        search_start == Max(end - look_back, start)
    IN FindBreakPoint(text, end - 1, search_start, end)

\* a loop that resumes one character after the break point
RECURSIVE ChunkLoop_SkipAfterBreak(_, _, _, _)
ChunkLoop_SkipAfterBreak(text, chunk_size, start, chunks) ==
    IF ~(start < Len(text)) THEN chunks
    ELSE LET end == start + chunk_size
         IN IF end >= Len(text)
            THEN Append(chunks, SubSeq(text, start + 1, Len(text)))
            ELSE ChunkLoop_SkipAfterBreak(text, chunk_size,
                     break_point(text, chunk_size, start) + 1,
                     Append(chunks, RStrip(SubSeq(text, start + 1,
                                                  break_point(text, chunk_size, start)))))

\* the while loop of lines 396-417, for chunk_size >= 1
RECURSIVE ChunkLoop(_, _, _, _)
ChunkLoop(text, chunk_size, start, chunks) ==
    IF ~(start < Len(text)) THEN chunks
    ELSE LET end == start + chunk_size
         IN IF end >= Len(text)
            THEN Append(chunks, SubSeq(text, start + 1, Len(text)))
            ELSE ChunkLoop(text, chunk_size, break_point(text, chunk_size, start),
                           Append(chunks, RStrip(SubSeq(text, start + 1,
                                                        break_point(text, chunk_size, start)))))

NonBlank(chunk) == Strip(chunk) # <<>>

\* a chunker without the early return of lines 390-391
chunk_text_NoEarlyReturn(text, chunk_size) ==
    SelectSeq(ChunkLoop(text, chunk_size, 0, <<>>), NonBlank)

chunk_text(text, chunk_size) ==
    IF Len(text) <= chunk_size THEN <<text>>
    ELSE SelectSeq(ChunkLoop(text, chunk_size, 0, <<>>), NonBlank)

(***************************************************************************)
(* Decimal text of an integer: str(i), and the digits of f"{i}".           *)
(***************************************************************************)
Digit(d) == <<"0", "1", "2", "3", "4", "5", "6", "7", "8", "9">>[d + 1]

RECURSIVE NatToStr(_)
NatToStr(n) == IF n < 10 THEN <<Digit(n)>> ELSE NatToStr(n \div 10) \o <<Digit(n % 10)>>

IntToStr(i) == IF i < 0 THEN <<"-">> \o NatToStr(-i) ELSE NatToStr(i)

RECURSIVE Concat(_)
Concat(ss) == IF ss = <<>> THEN <<>> ELSE Head(ss) \o Concat(Tail(ss))

\* str.startswith at a position: text[pos:pos+len(lit)] == lit (pos is 1-based)
MatchAt(text, pos, lit) ==
    /\ pos + Len(lit) - 1 <= Len(text)
    /\ SubSeq(text, pos, pos + Len(lit) - 1) = lit

\* str.replace(old, new): every non-overlapping occurrence, left to right
RECURSIVE Replace(_, _, _)
Replace(text, old, new) ==
    IF text = <<>> THEN <<>>
    ELSE IF MatchAt(text, 1, old)
         THEN new \o Replace(SubSeq(text, Len(old) + 1, Len(text)), old, new)
         ELSE <<Head(text)>> \o Replace(Tail(text), old, new)

\* the substring test behind re.search for a literal
Contains(text, lit) == \E p \in 1..(Len(text) + 1) : MatchAt(text, p, lit)

(***************************************************************************)
(* json.loads on the subset of JSON the model's payloads and templates     *)
(* use: objects, arrays, strings (escapes \" \\ \n), integers, true,       *)
(* false, null, with JSON whitespace between tokens.  A value is           *)
(* [t |-> tag, v |-> content]; an object keeps its members as a sequence   *)
(* of <<key, value>> in insertion order, as a Python dict does.            *)
(***************************************************************************)
JsonWs == {" ", "\n", "\t", "\r"}
DigitChars == {"0", "1", "2", "3", "4", "5", "6", "7", "8", "9"}
DigitVal(c) == CHOOSE d \in 0..9 : Digit(d) = c

JStr(s) == [t |-> "str", v |-> s]
JNum(n) == [t |-> "num", v |-> n]
JBool(b) == [t |-> "bool", v |-> b]
JNull == [t |-> "null", v |-> None]
JArr(items) == [t |-> "arr", v |-> items]
JObj(members) == [t |-> "obj", v |-> members]

ParseFail == [ok |-> FALSE, val |-> JNull, pos |-> 0]
ParseOk(val, pos) == [ok |-> TRUE, val |-> val, pos |-> pos]

RECURSIVE SkipWs(_, _)
SkipWs(s, p) == IF p <= Len(s) /\ s[p] \in JsonWs THEN SkipWs(s, p + 1) ELSE p

\* the \uxxxx escapes of the characters the model writes as U+ tokens
UnicodeEscapes ==
    << <<<<"\\", "u", "0", "0", "0", "7">>, "U+0007">>,
       <<<<"\\", "u", "0", "0", "e", "9">>, "U+00E9">>,
       <<<<"\\", "u", "2", "0", "2", "6">>, "U+2026">>,
       <<<<"\\", "u", "d", "8", "3", "d", "\\", "u", "d", "e", "0", "0">>, "U+1F600">> >>

\* the body of a string after its opening quote; a raw control character
\* (here the newline and the tab) inside a string is a decode error
RECURSIVE ParseStringBody(_, _, _)
ParseStringBody(s, p, acc) ==
    IF p > Len(s) THEN ParseFail
    ELSE IF s[p] = "\"" THEN ParseOk(JStr(acc), p + 1)
    ELSE IF s[p] = "\\" THEN
        IF p + 1 > Len(s) THEN ParseFail
        ELSE IF s[p + 1] \in {"\"", "\\", "/"} THEN ParseStringBody(s, p + 2, Append(acc, s[p + 1]))
        ELSE IF s[p + 1] = "n" THEN ParseStringBody(s, p + 2, Append(acc, "\n"))
        ELSE IF s[p + 1] = "t" THEN ParseStringBody(s, p + 2, Append(acc, "\t"))
        ELSE IF s[p + 1] = "r" THEN ParseStringBody(s, p + 2, Append(acc, "\r"))
        ELSE IF \E e \in 1..Len(UnicodeEscapes) : MatchAt(s, p, UnicodeEscapes[e][1])
        THEN LET e == CHOOSE k \in 1..Len(UnicodeEscapes) : MatchAt(s, p, UnicodeEscapes[k][1])
             IN ParseStringBody(s, p + Len(UnicodeEscapes[e][1]), Append(acc, UnicodeEscapes[e][2]))
        ELSE ParseFail
    ELSE IF s[p] \in {"\n", "\t", "\r"} THEN ParseFail
    ELSE ParseStringBody(s, p + 1, Append(acc, s[p]))

RECURSIVE ParseDigits(_, _, _)
ParseDigits(s, p, acc) ==
    IF p <= Len(s) /\ s[p] \in DigitChars
    THEN ParseDigits(s, p + 1, acc * 10 + DigitVal(s[p]))
    ELSE ParseOk(JNum(acc), p)

\* integers only; a leading zero ends the number, as in JSON
ParseNumber(s, p) ==
    LET neg == s[p] = "-"
        q == IF neg THEN p + 1 ELSE p
    IN IF q > Len(s) \/ s[q] \notin DigitChars THEN ParseFail
       ELSE LET r == IF s[q] = "0" THEN ParseOk(JNum(0), q + 1) ELSE ParseDigits(s, q, 0)
            IN IF r.pos <= Len(s) /\ s[r.pos] \in {".", "e", "E"} THEN ParseFail
               ELSE ParseOk(JNum(IF neg THEN 0 - r.val.v ELSE r.val.v), r.pos)

\* dict assignment: a repeated key keeps its first position and takes the last value
SetMember(members, key, val) ==
    IF \E i \in 1..Len(members) : members[i][1] = key
    THEN [i \in 1..Len(members) |->
            IF members[i][1] = key THEN <<key, val>> ELSE members[i]]
    ELSE Append(members, <<key, val>>)

RECURSIVE ParseValue(_, _)
RECURSIVE ParseArrayItems(_, _, _)
RECURSIVE ParseObjectMembers(_, _, _)

\* p is at the first non-whitespace character of a value
ParseValue(s, p) ==
    IF p > Len(s) THEN ParseFail
    ELSE IF s[p] = "\"" THEN ParseStringBody(s, p + 1, <<>>)
    ELSE IF s[p] = "{" THEN
        LET q == SkipWs(s, p + 1)
        IN IF q <= Len(s) /\ s[q] = "}" THEN ParseOk(JObj(<<>>), q + 1)
           ELSE ParseObjectMembers(s, q, <<>>)
    ELSE IF s[p] = "[" THEN
        LET q == SkipWs(s, p + 1)
        IN IF q <= Len(s) /\ s[q] = "]" THEN ParseOk(JArr(<<>>), q + 1)
           ELSE ParseArrayItems(s, q, <<>>)
    ELSE IF MatchAt(s, p, <<"t", "r", "u", "e">>) THEN ParseOk(JBool(TRUE), p + 4)
    ELSE IF MatchAt(s, p, <<"f", "a", "l", "s", "e">>) THEN ParseOk(JBool(FALSE), p + 5)
    ELSE IF MatchAt(s, p, <<"n", "u", "l", "l">>) THEN ParseOk(JNull, p + 4)
    ELSE IF s[p] = "-" \/ s[p] \in DigitChars THEN ParseNumber(s, p)
    ELSE ParseFail

\* p is at the first non-whitespace character of an item
ParseArrayItems(s, p, acc) ==
    LET item == ParseValue(s, p)
    IN IF ~item.ok THEN ParseFail
       ELSE LET q == SkipWs(s, item.pos)
            IN IF q > Len(s) THEN ParseFail
               ELSE IF s[q] = "]" THEN ParseOk(JArr(Append(acc, item.val)), q + 1)
               ELSE IF s[q] = "," THEN ParseArrayItems(s, SkipWs(s, q + 1), Append(acc, item.val))
               ELSE ParseFail

\* p is at the first non-whitespace character of a member
ParseObjectMembers(s, p, acc) ==
    IF p > Len(s) \/ s[p] # "\"" THEN ParseFail
    ELSE LET key == ParseStringBody(s, p + 1, <<>>)
         IN IF ~key.ok THEN ParseFail
            ELSE LET c == SkipWs(s, key.pos)
                 IN IF c > Len(s) \/ s[c] # ":" THEN ParseFail
                    ELSE LET val == ParseValue(s, SkipWs(s, c + 1))
                         IN IF ~val.ok THEN ParseFail
                            ELSE LET q == SkipWs(s, val.pos)
                                     members == SetMember(acc, key.val.v, val.val)
                                 IN IF q > Len(s) THEN ParseFail
                                    ELSE IF s[q] = "}" THEN ParseOk(JObj(members), q + 1)
                                    ELSE IF s[q] = ","
                                         THEN ParseObjectMembers(s, SkipWs(s, q + 1), members)
                                    ELSE ParseFail

\* json.loads(s): [ok |-> FALSE] stands for json.JSONDecodeError
json_loads(s) ==
    LET r == ParseValue(s, SkipWs(s, 1))
    IN IF r.ok /\ SkipWs(s, r.pos) > Len(s) THEN [ok |-> TRUE, val |-> r.val]
       ELSE [ok |-> FALSE, val |-> JNull]

(***************************************************************************)
(* json.dumps with its defaults: ", " and ": " separators, ASCII output.   *)
(* A character outside ASCII is written as its \uxxxx escape.             *)
(***************************************************************************)
\* The characters that the model's texts use and that a TLA+ string cannot
\* hold or show, each written as one token:
\*   U+0007  BEL, an ASCII control character (category Cc)
\*   U+0060  the ASCII grave accent (backtick)
\*   U+00E9  e with acute accent; NFKD gives "e" and a combining accent
\*   U+2026  horizontal ellipsis; NFKD gives "..."
\*   U+1F600 an emoji (grinning face)
NonAscii == {"U+00E9", "U+2026", "U+1F600"}
IsAscii(c) == c \notin NonAscii

Escape(c) ==
    IF c = "\"" THEN <<"\\", "\"">>
    ELSE IF c = "\\" THEN <<"\\", "\\">>
    ELSE IF c = "\n" THEN <<"\\", "n">>
    ELSE IF c = "\t" THEN <<"\\", "t">>
    ELSE IF c = "\r" THEN <<"\\", "r">>
    ELSE IF c = "U+0007" THEN <<"\\", "u", "0", "0", "0", "7">>
    ELSE IF c = "U+00E9" THEN <<"\\", "u", "0", "0", "e", "9">>
    ELSE IF c = "U+2026" THEN <<"\\", "u", "2", "0", "2", "6">>
    ELSE IF c = "U+1F600" THEN <<"\\", "u", "d", "8", "3", "d", "\\", "u", "d", "e", "0", "0">>
    ELSE <<c>>

RECURSIVE EscapeAll(_)
EscapeAll(s) == IF s = <<>> THEN <<>> ELSE Escape(Head(s)) \o EscapeAll(Tail(s))

DumpStr(s) == <<"\"">> \o EscapeAll(s) \o <<"\"">>

RECURSIVE json_dumps(_)
RECURSIVE DumpItems(_)
RECURSIVE DumpMembers(_)

json_dumps(j) ==
    IF j.t = "str" THEN DumpStr(j.v)
    ELSE IF j.t = "num" THEN IntToStr(j.v)
    ELSE IF j.t = "bool" THEN (IF j.v THEN <<"t", "r", "u", "e">> ELSE <<"f", "a", "l", "s", "e">>)
    ELSE IF j.t = "null" THEN <<"n", "u", "l", "l">>
    ELSE IF j.t = "arr" THEN <<"[">> \o DumpItems(j.v) \o <<"]">>
    ELSE <<"{">> \o DumpMembers(j.v) \o <<"}">>

DumpItems(items) ==
    IF items = <<>> THEN <<>>
    ELSE json_dumps(Head(items))
         \o (IF Len(items) > 1 THEN <<",", " ">> ELSE <<>>) \o DumpItems(Tail(items))

DumpMembers(members) ==
    IF members = <<>> THEN <<>>
    ELSE DumpStr(Head(members)[1]) \o <<":", " ">> \o json_dumps(Head(members)[2])
         \o (IF Len(members) > 1 THEN <<",", " ">> ELSE <<>>) \o DumpMembers(Tail(members))

(***************************************************************************)
(* str(value) of a parsed document, as _extract_text_content applies it:   *)
(* a string is itself, the others print as Python prints them.             *)
(***************************************************************************)
ReprEscape(c) ==
    IF c = "\\" THEN <<"\\", "\\">>
    ELSE IF c = "\n" THEN <<"\\", "n">>
    ELSE IF c = "\t" THEN <<"\\", "t">>
    ELSE IF c = "\r" THEN <<"\\", "r">>
    ELSE IF c = "'" THEN <<"\\", "'">>
    ELSE <<c>>

RECURSIVE ReprEscapeAll(_, _)
ReprEscapeAll(s, quote) ==
    IF s = <<>> THEN <<>>
    ELSE (IF Head(s) = "'" /\ quote = "\"" THEN <<"'">> ELSE ReprEscape(Head(s)))
         \o ReprEscapeAll(Tail(s), quote)

\* repr of a str: single quotes, unless the text holds ' and no "
py_repr_str(s) ==
    LET has(c) == \E i \in 1..Len(s) : s[i] = c
        quote == IF has("'") /\ ~has("\"") THEN "\"" ELSE "'"
    IN <<quote>> \o ReprEscapeAll(s, quote) \o <<quote>>

RECURSIVE py_repr(_)
RECURSIVE ReprItems(_)
RECURSIVE ReprMembers(_)

py_repr(j) ==
    IF j.t = "str" THEN py_repr_str(j.v)
    ELSE IF j.t = "num" THEN IntToStr(j.v)
    ELSE IF j.t = "bool" THEN (IF j.v THEN <<"T", "r", "u", "e">> ELSE <<"F", "a", "l", "s", "e">>)
    ELSE IF j.t = "null" THEN <<"N", "o", "n", "e">>
    ELSE IF j.t = "arr" THEN <<"[">> \o ReprItems(j.v) \o <<"]">>
    ELSE <<"{">> \o ReprMembers(j.v) \o <<"}">>

ReprItems(items) ==
    IF items = <<>> THEN <<>>
    ELSE py_repr(Head(items))
         \o (IF Len(items) > 1 THEN <<",", " ">> ELSE <<>>) \o ReprItems(Tail(items))

ReprMembers(members) ==
    IF members = <<>> THEN <<>>
    ELSE py_repr_str(Head(members)[1]) \o <<":", " ">> \o py_repr(Head(members)[2])
         \o (IF Len(members) > 1 THEN <<",", " ">> ELSE <<>>) \o ReprMembers(Tail(members))

py_str(j) == IF j.t = "str" THEN j.v ELSE py_repr(j)

(***************************************************************************)
(* MQTTClient._sanitize_response.  Each re.sub is modelled as the          *)
(* leftmost, non-overlapping, left-to-right substitution the regex engine  *)
(* performs.                                                               *)
(***************************************************************************)
\* the characters of the model that lie in the ranges of emoji_pattern
EmojiRanges == {"U+1F600"}
\* \s of a str pattern
ReWhitespace == {" ", "\n", "\t", "\r"}
\* unicodedata.category(c) == "Cc"
ControlChars == {"U+0007", "\n", "\t", "\r"}

\* re.sub("[S]+", repl, text) for a character class S
RECURSIVE SubRuns(_, _, _)
SubRuns(text, S, repl) ==
    IF text = <<>> THEN <<>>
    ELSE IF Head(text) \in S
         THEN IF Len(text) > 1 /\ text[2] \in S
              THEN SubRuns(Tail(text), S, repl)
              ELSE repl \o SubRuns(Tail(text), S, repl)
         ELSE <<Head(text)>> \o SubRuns(Tail(text), S, repl)

\* first position >= p holding character c, 0 if there is none; "." of a
\* regex does not cross a newline when stop_at_newline is set
RECURSIVE FindChar(_, _, _, _)
FindChar(text, p, c, stop_at_newline) ==
    IF p > Len(text) THEN 0
    ELSE IF text[p] = c THEN p
    ELSE IF stop_at_newline /\ text[p] = "\n" THEN 0
    ELSE FindChar(text, p + 1, c, stop_at_newline)

\* first position >= p where lit starts, with no newline before it; 0 if none
RECURSIVE FindLit(_, _, _)
FindLit(text, p, lit) ==
    IF p > Len(text) THEN 0
    ELSE IF MatchAt(text, p, lit) THEN p
    ELSE IF text[p] = "\n" THEN 0
    ELSE FindLit(text, p + 1, lit)

\* re.sub(r"<[^>]*>", "", text)
RECURSIVE RemoveTags(_)
RemoveTags(text) ==
    IF text = <<>> THEN <<>>
    ELSE LET close == IF Head(text) = "<" THEN FindChar(text, 2, ">", FALSE) ELSE 0
         IN IF close > 0 THEN RemoveTags(SubSeq(text, close + 1, Len(text)))
            ELSE <<Head(text)>> \o RemoveTags(Tail(text))

\* re.sub(r"D(.*?)D", r"\1", text) for a delimiter D (one or two characters)
RECURSIVE Unwrap(_, _)
Unwrap(text, delim) ==
    IF text = <<>> THEN <<>>
    ELSE LET n == Len(delim)
             close == IF MatchAt(text, 1, delim) THEN FindLit(text, n + 1, delim) ELSE 0
         IN IF close > 0
            THEN SubSeq(text, n + 1, close - 1) \o Unwrap(SubSeq(text, close + n, Len(text)), delim)
            ELSE <<Head(text)>> \o Unwrap(Tail(text), delim)

\* length of the match of #{1,6}\s* at the head of text (0: no match)
RECURSIVE RunLen(_, _, _)
RunLen(text, p, S) == IF p <= Len(text) /\ text[p] \in S THEN 1 + RunLen(text, p + 1, S) ELSE 0

HeaderMatchLen(text) ==
    LET hashes == Min(RunLen(text, 1, {"#"}), 6)
    IN IF hashes = 0 THEN 0 ELSE hashes + RunLen(text, hashes + 1, ReWhitespace)

\* re.sub(r"#{1,6}\s*", "", text)
RECURSIVE RemoveHeaders(_)
RemoveHeaders(text) ==
    IF text = <<>> THEN <<>>
    ELSE LET n == HeaderMatchLen(text)
         IN IF n > 0 THEN RemoveHeaders(SubSeq(text, n + 1, Len(text)))
            ELSE <<Head(text)>> \o RemoveHeaders(Tail(text))

\* re.sub(r"\[(.*?)\]\(.*?\)", r"\1", text)
RECURSIVE Unlink(_)
Unlink(text) ==
    IF text = <<>> THEN <<>>
    ELSE LET mid == IF Head(text) = "[" THEN FindLit(text, 2, <<"]", "(">>) ELSE 0
             close == IF mid > 0 THEN FindChar(text, mid + 2, ")", TRUE) ELSE 0
         IN IF close > 0
            THEN SubSeq(text, 2, mid - 1) \o Unlink(SubSeq(text, close + 1, Len(text)))
            ELSE <<Head(text)>> \o Unlink(Tail(text))

\* unicodedata.normalize("NFKD", c).encode("ascii", "ignore")
NfkdAscii(c) ==
    IF c = "U+00E9" THEN <<"e">>
    ELSE IF c = "U+2026" THEN <<".", ".", ".">>
    ELSE IF IsAscii(c) THEN <<c>>
    ELSE <<>>

RECURSIVE NormalizeAscii(_)
NormalizeAscii(text) ==
    IF text = <<>> THEN <<>> ELSE NfkdAscii(Head(text)) \o NormalizeAscii(Tail(text))

Remove(text, S) == SelectSeq(text, LAMBDA c : c \notin S)

\* " ".join(text.split())
JoinSplit(text) == Strip(SubRuns(text, Whitespace, <<" ">>))

\* a sanitizer without the final " ".join(text.split())
SanitizeSteps_NoFinalCollapse(response) ==
    LET t1 == Remove(response, EmojiRanges)
        t2 == SubRuns(t1, ReWhitespace, <<" ">>)
        t3 == SubRuns(t2, {"\n"}, <<" ">>)
        t4 == SubRuns(t3, {"\r"}, <<" ">>)
        t5 == SubRuns(t4, {"\t"}, <<" ">>)
        t6 == RemoveTags(t5)
        t7 == Unwrap(t6, <<"*", "*">>)
        t8 == Unwrap(t7, <<"*">>)
        t9 == Unwrap(t8, <<"_">>)
        t10 == Unwrap(t9, <<"U+0060">>)
        t11 == RemoveHeaders(t10)
        t12 == Unlink(t11)
        t13 == NormalizeAscii(t12)
        t14 == Remove(t13, ControlChars)
    IN Strip(t14)

SanitizeSteps(response) ==
    LET t1 == Remove(response, EmojiRanges)
        t2 == SubRuns(t1, ReWhitespace, <<" ">>)
        t3 == SubRuns(t2, {"\n"}, <<" ">>)
        t4 == SubRuns(t3, {"\r"}, <<" ">>)
        t5 == SubRuns(t4, {"\t"}, <<" ">>)
        t6 == RemoveTags(t5)
        t7 == Unwrap(t6, <<"*", "*">>)
        t8 == Unwrap(t7, <<"*">>)
        t9 == Unwrap(t8, <<"_">>)
        t10 == Unwrap(t9, <<"U+0060">>)
        t11 == RemoveHeaders(t10)
        t12 == Unlink(t11)
        t13 == NormalizeAscii(t12)
        t14 == Remove(t13, ControlChars)
        t15 == JoinSplit(t14)
    IN Strip(t15)

sanitize_response(cfg, response) ==
    IF ~cfg.sanitize_response THEN response ELSE SanitizeSteps(response)

(***************************************************************************)
(* str.format(response=value) on a template text.  Modelled for the        *)
(* replacement field {response} without conversion or format spec; any     *)
(* other field raises (KeyError, IndexError or ValueError), as do a single *)
(* "{" and a single "}".  [ok |-> FALSE] stands for the exception.         *)
(***************************************************************************)
ResponseField == <<"{", "r", "e", "s", "p", "o", "n", "s", "e", "}">>
PLACEHOLDER == <<"_", "_", "R", "E", "S", "P", "O", "N", "S", "E", "_",
                 "P", "L", "A", "C", "E", "H", "O", "L", "D", "E", "R", "_", "_">>

RECURSIVE FormatFrom(_, _, _, _)
FormatFrom(template, p, value, acc) ==
    IF p > Len(template) THEN [ok |-> TRUE, text |-> acc]
    ELSE IF MatchAt(template, p, <<"{", "{">>) THEN FormatFrom(template, p + 2, value, Append(acc, "{"))
    ELSE IF MatchAt(template, p, <<"}", "}">>) THEN FormatFrom(template, p + 2, value, Append(acc, "}"))
    ELSE IF MatchAt(template, p, ResponseField)
         THEN FormatFrom(template, p + Len(ResponseField), value, acc \o value)
    ELSE IF template[p] \in {"{", "}"} THEN [ok |-> FALSE, text |-> <<>>]
    ELSE FormatFrom(template, p + 1, value, Append(acc, template[p]))

py_format(template, value) == FormatFrom(template, 1, value, <<>>)

(***************************************************************************)
(* MQTTClient._format_response.  config.publish_template is                *)
(* [kind |-> "str", text |-> chars] or [kind |-> "dict", value |-> JObj].  *)
(***************************************************************************)
\* the nested function replace_placeholders of lines 445-461: string
\* values only, never the keys of an object
RECURSIVE replace_placeholders(_, _)
RECURSIVE ReplaceInItems(_, _)
RECURSIVE ReplaceInMembers(_, _)

replace_placeholders(obj, sanitized_response) ==
    IF obj.t = "str" THEN JStr(Replace(obj.v, PLACEHOLDER, sanitized_response))
    ELSE IF obj.t = "obj" THEN JObj(ReplaceInMembers(obj.v, sanitized_response))
    ELSE IF obj.t = "arr" THEN JArr(ReplaceInItems(obj.v, sanitized_response))
    ELSE obj

ReplaceInItems(items, sanitized_response) ==
    IF items = <<>> THEN <<>>
    ELSE <<replace_placeholders(Head(items), sanitized_response)>>
         \o ReplaceInItems(Tail(items), sanitized_response)

ReplaceInMembers(members, sanitized_response) ==
    IF members = <<>> THEN <<>>
    ELSE << <<Head(members)[1], replace_placeholders(Head(members)[2], sanitized_response)>> >>
         \o ReplaceInMembers(Tail(members), sanitized_response)

LooksLikeJson(text) ==
    LET t == Strip(text) IN t # <<>> /\ t[1] = "{" /\ t[Len(t)] = "}"

\* the result of a finished call: raised tells whether the outer except
\* clause (lines 497-499) produced it, which returns the response as given
Formatted(text) == [raised |-> FALSE, text |-> text]
FormatFailed(response) == [raised |-> TRUE, text |-> response]

\* template.format(response=sanitized_response), lines 474 and 483-485
FormatResult(f, response) == IF f.ok THEN Formatted(f.text) ELSE FormatFailed(response)
FormatPlain(text, response, sanitized_response) ==
    FormatResult(py_format(text, sanitized_response), response)

\* lines 431-476: a string template, json_template being the outcome of
\* json.loads on the template with its {response} fields replaced
FormatStr(text, json_template, response, sanitized_response) ==
    IF LooksLikeJson(text) /\ json_template.ok
    THEN Formatted(json_dumps(replace_placeholders(json_template.val, sanitized_response)))
    ELSE FormatPlain(text, response, sanitized_response)

FormatWith(template, response, sanitized_response) ==
    IF template.kind = "str"
    THEN FormatStr(template.text,
                   json_loads(Replace(template.text, ResponseField, PLACEHOLDER)),
                   response, sanitized_response)
    ELSE IF template.kind = "dict"
    THEN FormatPlain(json_dumps(template.value), response, sanitized_response)
    ELSE Formatted(sanitized_response)

format_outcome(cfg, response) ==
    FormatWith(cfg.publish_template, response, sanitize_response(cfg, response))

format_response(cfg, response) == format_outcome(cfg, response).text

(***************************************************************************)
(* The publish path of MQTTClient: publish_response,                       *)
(* _publish_single_message, _publish_chunked_response.  The path is        *)
(* synchronous, so one call is one step; its outcome is                    *)
(*   sent      the payloads handed to client.publish, in call order, each  *)
(*             with the rc the transport returned                          *)
(*   errors    the logger.error calls, in order                            *)
(*   chunker   the _chunk_text calls made: <<>> or one [text, chunk_size]  *)
(*   chunks    what _chunk_text returned (<<>> when it was not called)     *)
(*   raised    whether an exception left publish_response                  *)
(* rc_of[k] is the rc of the k-th client.publish call of the step.         *)
(***************************************************************************)
prefix_space == 10
MQTT_ERR_SUCCESS == "MQTT_ERR_SUCCESS"
MQTT_ERR_NO_CONN == "MQTT_ERR_NO_CONN"

\* Optional[int]: <<>> is None and <<n>> is the integer n
NoLimit == <<>>
Limit(n) == <<n>>
Truthy(opt) == opt # NoLimit /\ opt[1] # 0

NoOutcome == [sent |-> <<>>, errors |-> <<>>, chunker |-> <<>>, chunks |-> <<>>,
              raised |-> FALSE]

\* one client.publish call: what was handed over, the rc that came back, and
\* the logger.error calls around it (formatting first, then the rc check)
Handoff(formatted, rc, what) ==
    [payload |-> formatted.text, rc |-> rc,
     errors |-> (IF formatted.raised THEN <<"Error formatting response">> ELSE <<>>)
                \o (IF rc = MQTT_ERR_SUCCESS THEN <<>> ELSE <<what>>)]

Sent(handoffs) == [k \in 1..Len(handoffs) |-> [payload |-> handoffs[k].payload, rc |-> handoffs[k].rc]]
Errors(handoffs) == Concat([k \in 1..Len(handoffs) |-> handoffs[k].errors])

publish_single_message(cfg, formatted, rc_of) ==
    <<Handoff(formatted, rc_of[1], "Failed to publish response")>>

\* f"{i}/{total_chunks}: {chunk}"
prefixed_chunk(i, total_chunks, chunk) ==
    IntToStr(i) \o <<"/">> \o IntToStr(total_chunks) \o <<":", " ">> \o chunk

\* a loop that gives up at the first publish that fails
RECURSIVE PublishChunks_StopOnFailure(_, _, _, _)
PublishChunks_StopOnFailure(cfg, chunks, i, rc_of) ==
    IF i > Len(chunks) THEN <<>>
    ELSE <<Handoff(format_outcome(cfg, prefixed_chunk(i, Len(chunks), chunks[i])),
                   rc_of[i], "Failed to publish chunk")>>
         \o (IF rc_of[i] = MQTT_ERR_SUCCESS
             THEN PublishChunks_StopOnFailure(cfg, chunks, i + 1, rc_of)
             ELSE <<>>)

\* the for loop of lines 364-386, from chunk i on
RECURSIVE PublishChunks(_, _, _, _)
PublishChunks(cfg, chunks, i, rc_of) ==
    IF i > Len(chunks) THEN <<>>
    ELSE <<Handoff(format_outcome(cfg, prefixed_chunk(i, Len(chunks), chunks[i])),
                   rc_of[i], "Failed to publish chunk")>>
         \o PublishChunks(cfg, chunks, i + 1, rc_of)

\* the outcome of a call that published without chunking
Unchunked(handoffs) ==
    [NoOutcome EXCEPT !.sent = Sent(handoffs), !.errors = Errors(handoffs)]

\* the outcome of a call that went through the chunker
Chunked(response, chunk_size, chunks, handoffs) ==
    [sent |-> Sent(handoffs), errors |-> Errors(handoffs),
     chunker |-> <<[text |-> response, chunk_size |-> chunk_size]>>,
     chunks |-> chunks, raised |-> FALSE]

PublishAll(cfg, response, chunk_size, chunks, rc_of) ==
    Chunked(response, chunk_size, chunks, PublishChunks(cfg, chunks, 1, rc_of))

\* a reservation of the five characters of a one-digit label "k/N: "
publish_chunked_response_ShortReservation(cfg, response, rc_of) ==
    IF ~Truthy(cfg.message_max_length)
    THEN [NoOutcome EXCEPT !.raised = TRUE]
    ELSE LET chunk_size == cfg.message_max_length[1] - 5
         IN IF chunk_size <= 0
            THEN [NoOutcome EXCEPT !.errors = <<"Message max length too small for chunking">>]
            ELSE PublishAll(cfg, response, chunk_size, chunk_text(response, chunk_size), rc_of)

\* a prefix check that lets a chunk size of zero through; _chunk_text never
\* returns then, so the call is recorded and nothing is published
publish_chunked_response_ZeroChunkSize(cfg, response, rc_of) ==
    IF ~Truthy(cfg.message_max_length)
    THEN [NoOutcome EXCEPT !.raised = TRUE]
    ELSE LET chunk_size == cfg.message_max_length[1] - prefix_space
         IN IF chunk_size < 0
            THEN [NoOutcome EXCEPT !.errors = <<"Message max length too small for chunking">>]
            ELSE IF chunk_size = 0
            THEN Chunked(response, chunk_size, <<>>, <<>>)
            ELSE PublishAll(cfg, response, chunk_size, chunk_text(response, chunk_size), rc_of)

publish_chunked_response(cfg, response, rc_of) ==
    IF ~Truthy(cfg.message_max_length)
    THEN [NoOutcome EXCEPT !.raised = TRUE]     \* ValueError, line 342
    ELSE LET chunk_size == cfg.message_max_length[1] - prefix_space
         IN IF chunk_size <= 0
            THEN [NoOutcome EXCEPT !.errors = <<"Message max length too small for chunking">>]
            ELSE PublishAll(cfg, response, chunk_size, chunk_text(response, chunk_size), rc_of)

\* a chunking decision that also chunks a response of exactly the limit
PublishBody_ChunkAtLimit(cfg, response, rc_of) ==
    IF Truthy(cfg.message_max_length) /\ Len(response) >= cfg.message_max_length[1]
    THEN publish_chunked_response(cfg, response, rc_of)
    ELSE Unchunked(publish_single_message(cfg, format_outcome(cfg, response), rc_of))

\* lines 303-313, the body of the try
PublishBody(cfg, response, rc_of) ==
    IF Truthy(cfg.message_max_length) /\ Len(response) > cfg.message_max_length[1]
    THEN publish_chunked_response(cfg, response, rc_of)
    ELSE Unchunked(publish_single_message(cfg, format_outcome(cfg, response), rc_of))

\* except Exception, lines 315-316
CatchPublishError(body) ==
    IF body.raised
    THEN [body EXCEPT !.raised = FALSE, !.errors = @ \o <<"Error publishing response">>]
    ELSE body

\* an entry check that looks at the client only, not at the connected flag
publish_response_ClientOnly(cfg, cli, conn, response, rc_of) ==
    IF cli = None
    THEN [NoOutcome EXCEPT !.errors = <<"Cannot publish: not connected">>]
    ELSE CatchPublishError(PublishBody(cfg, response, rc_of))

publish_response(cfg, cli, conn, response, rc_of) ==
    IF cli = None \/ ~conn
    THEN [NoOutcome EXCEPT !.errors = <<"Cannot publish: not connected">>]
    ELSE CatchPublishError(PublishBody(cfg, response, rc_of))

(***************************************************************************)
(* The inbound side of MQTTClient: payload decoding, _extract_text_content *)
(* and _should_trigger_ai.                                                 *)
(***************************************************************************)
\* bytes.decode("utf-8"): the token "0xFF" is a byte that no UTF-8 text holds
BadByte == "0xFF"
utf8_decode(payload) ==
    IF \E i \in 1..Len(payload) : payload[i] = BadByte
    THEN [ok |-> FALSE, text |-> <<>>]      \* UnicodeDecodeError
    ELSE [ok |-> TRUE, text |-> payload]

RootPath == <<"$">>
TextPath == <<"$", ".", "t", "e", "x", "t">>

\* '$.*'
StarPath == <<"$", ".", "*">>

\* parse(path) of jsonpath_ng for the paths of the model: "$", "$.<field>"
\* and "$.*" parse; a path with an unclosed "[" raises a parser exception
jsonpath_parses(path) == \A i \in 1..Len(path) : path[i] # "["

\* parse(path).find(data) of jsonpath_ng for the path forms "$", "$.*" and
\* "$.<field>": the root matches the document itself; a field matches the
\* member of that name of an object and nothing of any other document; the
\* wildcard matches every member of an object, in the object's order
jsonpath_find(path, data) ==
    IF path = RootPath THEN <<data>>
    ELSE IF path = StarPath
    THEN IF data.t = "obj" THEN [i \in 1..Len(data.v) |-> data.v[i][2]] ELSE <<>>
    ELSE LET field == SubSeq(path, 3, Len(path))
         IN IF data.t = "obj" /\ \E i \in 1..Len(data.v) : data.v[i][1] = field
            THEN LET i == CHOOSE k \in 1..Len(data.v) : data.v[k][1] = field
                 IN <<data.v[i][2]>>
            ELSE <<>>

\* None is the Python None; a text is returned as [text |-> chars]
NoText == [found |-> FALSE, text |-> <<>>]
SomeText(t) == [found |-> TRUE, text |-> t]

\* an extractor that takes the last match
extract_text_content_LastMatch(cfg, payload) ==
    LET data == json_loads(payload)
    IN IF data.ok
       THEN IF ~jsonpath_parses(cfg.subscribe_path) THEN NoText
            ELSE
            LET matches == jsonpath_find(cfg.subscribe_path, data.val)
            IN IF matches # <<>> THEN SomeText(py_str(matches[Len(matches)])) ELSE NoText
       ELSE IF cfg.subscribe_path = TextPath \/ cfg.subscribe_path = RootPath
            THEN SomeText(payload)
            ELSE NoText

\* an extractor that returns every plain-text payload, whatever the path
extract_text_content_AnyPath(cfg, payload) ==
    LET data == json_loads(payload)
    IN IF data.ok
       THEN IF ~jsonpath_parses(cfg.subscribe_path) THEN NoText
            ELSE
            LET matches == jsonpath_find(cfg.subscribe_path, data.val)
            IN IF matches # <<>> THEN SomeText(py_str(matches[1])) ELSE NoText
       ELSE SomeText(payload)

extract_text_content(cfg, payload) ==
    LET data == json_loads(payload)
    IN IF data.ok
       THEN IF ~jsonpath_parses(cfg.subscribe_path)
            THEN NoText     \* parse raises: except Exception, lines 175-177
            ELSE
            LET matches == jsonpath_find(cfg.subscribe_path, data.val)
            IN IF matches # <<>> THEN SomeText(py_str(matches[1])) ELSE NoText
       ELSE IF cfg.subscribe_path = TextPath \/ cfg.subscribe_path = RootPath
            THEN SomeText(payload)
            ELSE NoText

\* re.compile / re.search for the patterns of the model: a literal text,
\* optionally anchored with a leading "^"; an unbalanced "(" is re.error
re_valid(pattern) ==
    Cardinality({i \in 1..Len(pattern) : pattern[i] = "("})
        = Cardinality({i \in 1..Len(pattern) : pattern[i] = ")"})

\* the pattern parser of re raises OverflowError ("the repetition number is
\* too large"), which is not an re.error, for a repetition "x{n}" whose count
\* is above 2^32 - 1: every count of more than ten digits is
re_overflow(pattern) ==
    \E i \in 2..Len(pattern) : \E j \in (i + 1)..Len(pattern) :
        /\ pattern[i] = "{" /\ pattern[j] = "}" /\ j - i > 11
        /\ pattern[i + 1] # "0"
        /\ \A k \in (i + 1)..(j - 1) : pattern[k] \in DigitChars

re_search(pattern, text) ==
    IF pattern # <<>> /\ pattern[1] = "^" THEN MatchAt(text, 1, Tail(pattern))
    ELSE Contains(text, pattern)

\* what a call of _should_trigger_ai does: it returns a bool, or an
\* exception that line 189 does not catch leaves it
Returned(value) == [raised |-> FALSE, value |-> value]
TriggerRaised == [raised |-> TRUE, value |-> FALSE]

should_trigger_ai(cfg, message) ==
    IF re_overflow(cfg.trigger_pattern) THEN TriggerRaised  \* OverflowError, line 182
    ELSE IF re_valid(cfg.trigger_pattern)
    THEN Returned(re_search(cfg.trigger_pattern, message))
    ELSE Returned(TRUE)       \* except re.error, lines 189-193

(***************************************************************************)
(* Configurations and inputs of the bounded model.                         *)
(***************************************************************************)
DefaultTemplate == [kind |-> "str", text |-> ResponseField]
\* '{"response": "{response}", "type": "ai"}' (tests/test_chunking.py:128)
JsonTemplate ==
    [kind |-> "str",
     text |-> <<"{", "\"", "r", "e", "s", "p", "o", "n", "s", "e", "\"", ":", " ", "\"">>
              \o ResponseField
              \o <<"\"", ",", " ", "\"", "t", "y", "p", "e", "\"", ":", " ",
                   "\"", "a", "i", "\"", "}">>]
\* 'AI: {response}'
PrefixTemplate == [kind |-> "str", text |-> <<"A", "I", ":", " ">> \o ResponseField]

OtherPath == <<"$", ".", "o", "t", "h", "e", "r">>
AtAi == <<"@", "a", "i">>
BadPattern == <<"(">>

MkConfig(path, pattern, sanitize, template, max_length) ==
    [subscribe_path |-> path, trigger_pattern |-> pattern, sanitize_response |-> sanitize,
     publish_template |-> template, message_max_length |-> max_length]

\* the state of every bridge variable in the pure-function specifications
IdleConfig == MkConfig(TextPath, AtAi, FALSE, DefaultTemplate, NoLimit)
BridgeIdle ==
    /\ config = IdleConfig
    /\ client = None /\ connected = FALSE /\ transport = "stopped"
    /\ session = None /\ loop = "running" /\ shutdown_event = FALSE
    /\ tasks = <<>> /\ events = <<>> /\ calls = <<>>

\* the rc of the k-th client.publish of a step: the fail_at-th call fails
\* (fail_at = 0: none does)
MaxFailAt == 2
\* (a call on response publishes at most Len(response) + 1 times)
RcOf(fail_at, response) ==
    [k \in 1..(Len(response) + 1) |-> IF k = fail_at THEN MQTT_ERR_NO_CONN ELSE MQTT_ERR_SUCCESS]

\* one publish_response call and what it did; ready tells whether the client
\* was present and connected at entry
Call(msg, kind, response, outcome) ==
    [msg |-> msg, kind |-> kind, response |-> response,
     ready |-> client # None /\ connected, sent |-> outcome.sent,
     errors |-> outcome.errors, chunker |-> outcome.chunker, chunks |-> outcome.chunks,
     raised |-> outcome.raised]

(***************************************************************************)
(* SpecPublish: one publish_response call on a client in each connection   *)
(* state, for every configuration in PublishConfigs, every response built  *)
(* from at most MaxBlocks blocks and every position of a failing publish.  *)
(***************************************************************************)
MaxBlocks == 3
Blocks ==
    { <<"a", "a", "a", "a", "a", "a">>,
      <<"a", "a", " ", "a", ".", " ">>,
      <<"*", "*", "a", "*", "*">>,
      <<"U+2026", "U+2026", "U+2026", "a", "a", "U+1F600">> }

RECURSIVE BlockTexts(_)
BlockTexts(n) ==
    IF n = 0 THEN {<<>>}
    ELSE LET shorter == BlockTexts(n - 1)
         IN shorter \cup {t \o b : t \in shorter, b \in Blocks}

PublishLimits == {NoLimit, Limit(10), Limit(11), Limit(15)}
PublishConfigs ==
    {MkConfig(TextPath, AtAi, sanitize, template, max_length) :
        sanitize \in BOOLEAN,
        template \in {DefaultTemplate, JsonTemplate, PrefixTemplate},
        max_length \in PublishLimits}

InitPublish ==
    /\ arg = 0 /\ ret = Pending
    /\ config \in PublishConfigs
    /\ \E state \in {<<"client", TRUE>>, <<"client", FALSE>>, <<None, FALSE>>} :
          client = state[1] /\ connected = state[2]
    /\ transport = "running" /\ session = "open" /\ loop = "running"
    /\ shutdown_event = FALSE
    /\ tasks = <<>> /\ events = <<>> /\ calls = <<>>

PublishCall ==
    /\ calls = <<>>
    /\ \E response \in BlockTexts(MaxBlocks), fail_at \in 0..MaxFailAt :
          calls' = <<Call(0, "reply", response,
                          publish_response(config, client, connected, response,
                                           RcOf(fail_at, response)))>>
    /\ UNCHANGED <<arg, ret, config, client, connected, transport, session, loop,
                   shutdown_event, tasks, events>>

NextPublish == PublishCall

SpecPublish == InitPublish /\ [][NextPublish]_vars

(***************************************************************************)
(* SpecChunk: chunk_text applied to every text over ChunkAlphabet of       *)
(* length <= MaxTextLen, alone and after a word of MaxChunkSize \div 2      *)
(* letters, and every chunk size in 1..MaxChunkSize.                       *)
(***************************************************************************)
LongWord == [i \in 1..(MaxChunkSize \div 2) |-> "a"]
ChunkTexts ==
    {word \o t : word \in {<<>>, LongWord}, t \in SeqsUpTo(ChunkAlphabet, MaxTextLen)}

InitChunk ==
    /\ arg \in [text : ChunkTexts, chunk_size : 1..MaxChunkSize]
    /\ ret = Pending
    /\ BridgeIdle

ApplyChunk ==
    /\ ret = Pending
    /\ ret' = [done |-> TRUE, chunks |-> chunk_text(arg.text, arg.chunk_size)]
    /\ UNCHANGED <<arg, bridge_vars>>

NextChunk == ApplyChunk

SpecChunk == InitChunk /\ [][NextChunk]_vars

(***************************************************************************)
(* SpecTrigger: _should_trigger_ai applied to every text over "@", "a",    *)
(* "i" of length <= MaxTriggerLen, for a literal pattern, an anchored one, *)
(* the empty one, one that is an re.error and one whose repetition count   *)
(* is too large.                                                           *)
(***************************************************************************)
MaxTriggerLen == 4
AnchoredAtAi == <<"^">> \o AtAi
\* 'a{99999999999}'
HugeRepeat == <<"a", "{", "9", "9", "9", "9", "9", "9", "9", "9", "9", "9", "9", "}">>
TriggerPatterns == {AtAi, AnchoredAtAi, <<>>, BadPattern, HugeRepeat}

InitTrigger ==
    /\ arg \in [message : SeqsUpTo({"@", "a", "i"}, MaxTriggerLen),
                trigger_pattern : TriggerPatterns]
    /\ ret = Pending
    /\ BridgeIdle

ApplyTrigger ==
    /\ ret = Pending
    /\ ret' = [done |-> TRUE,
               out |-> should_trigger_ai([config EXCEPT !.trigger_pattern = arg.trigger_pattern],
                                         arg.message)]
    /\ UNCHANGED <<arg, bridge_vars>>

NextTrigger == ApplyTrigger

SpecTrigger == InitTrigger /\ [][NextTrigger]_vars

(***************************************************************************)
(* SpecExtract: _extract_text_content applied to decoded payloads that are *)
(* JSON objects, arrays and scalars, and to payloads that are not JSON     *)
(* (plain text, the empty text, truncated or unquoted JSON), for the root  *)
(* path, two field paths, the wildcard and a path that does not parse.     *)
(***************************************************************************)
ExtractPayloads ==
    { <<"{", "\"", "t", "e", "x", "t", "\"", ":", " ", "\"", "@", "a", "i", " ", "h", "i", "\"", "}">>,
      <<"{", "\"", "t", "e", "x", "t", "\"", ":", " ", "5", "}">>,
      <<"{", "\"", "t", "e", "x", "t", "\"", ":", " ", "n", "u", "l", "l", "}">>,
      <<"{", "\"", "t", "e", "x", "t", "\"", ":", " ", "{", "\"", "a", "\"", ":", " ", "\"", "@", "a", "i", "\"", "}", "}">>,
      <<"{", "\"", "a", "\"", ":", " ", "1", ",", " ", "\"", "t", "e", "x", "t", "\"", ":", " ", "\"", "x", "\"", "}">>,
      <<"{", "\"", "o", "t", "h", "e", "r", "\"", ":", " ", "t", "r", "u", "e", "}">>,
      <<"[", "1", ",", " ", "\"", "@", "a", "i", "\"", "]">>,
      <<"\"", "@", "a", "i", "\"">>,
      <<"7">>,
      <<"n", "u", "l", "l">>,
      <<"{", "}">>,
      <<"h", "e", "l", "l", "o", " ", "@", "a", "i">>,
      <<>>,
      <<"{", "\"", "t", "e", "x", "t", "\"", ":", " ", "\"", "@", "a", "i", "\"">>,
      <<"t", "e", "x", "t">>,
      <<"{", "t", "e", "x", "t", ":", " ", "1", "}">> }

\* '$['
InvalidPath == <<"$", "[">>
ExtractPaths == {RootPath, TextPath, OtherPath, StarPath, InvalidPath}

InitExtract ==
    /\ arg \in [payload : ExtractPayloads, subscribe_path : ExtractPaths]
    /\ ret = Pending
    /\ BridgeIdle

ApplyExtract ==
    /\ ret = Pending
    /\ ret' = [done |-> TRUE,
               out |-> extract_text_content([config EXCEPT !.subscribe_path = arg.subscribe_path],
                                            arg.payload)]
    /\ UNCHANGED <<arg, bridge_vars>>

NextExtract == ApplyExtract

SpecExtract == InitExtract /\ [][NextExtract]_vars

(***************************************************************************)
(* SpecFormat: _format_response applied with sanitizing off and on, for    *)
(* plain string templates, string templates that are JSON documents,       *)
(* string templates in braces that are not JSON, and a dict template,      *)
(* to every response over FormatAlphabet of length <= MaxResponseLen and   *)
(* to the blocks of SpecPublish.                                           *)
(***************************************************************************)
MaxResponseLen == 2
\* a letter, a double quote, both braces and a backslash
FormatAlphabet == {"a", "\"", "{", "}", "\\"}
FormatResponses == SeqsUpTo(FormatAlphabet, MaxResponseLen) \cup Blocks

\* the documents {"response": "{response}", "type": "ai"},
\* {"a": ["{response}", 1], "b": "x {response}"} and
\* {"response": "{response}", "note": "__RESPONSE_PLACEHOLDER__"}
JsonDoc ==
    JObj(<< <<<<"r", "e", "s", "p", "o", "n", "s", "e">>, JStr(ResponseField)>>,
            <<<<"t", "y", "p", "e">>, JStr(<<"a", "i">>)>> >>)
NestedDoc ==
    JObj(<< <<<<"a">>, JArr(<<JStr(ResponseField), JNum(1)>>)>>,
            <<<<"b">>, JStr(<<"x", " ">> \o ResponseField)>> >>)
SentinelDoc ==
    JObj(<< <<<<"r", "e", "s", "p", "o", "n", "s", "e">>, JStr(ResponseField)>>,
            <<<<"n", "o", "t", "e">>, JStr(PLACEHOLDER)>> >>)
JsonDocs == {JsonDoc, NestedDoc, SentinelDoc}

\* a document written out as a string template, and given as a dict
DocTemplate(doc) == [kind |-> "str", text |-> json_dumps(doc)]
DictTemplate(doc) == [kind |-> "dict", value |-> doc]

\* '{"a": {response}}', '{"a": "{response}",}' and '{{response}}': in braces,
\* but no JSON once the field is replaced by the marker
BareFieldTemplate ==
    [kind |-> "str", text |-> <<"{", "\"", "a", "\"", ":", " ">> \o ResponseField \o <<"}">>]
TrailingCommaTemplate ==
    [kind |-> "str", text |-> <<"{", "\"", "a", "\"", ":", " ", "\"">> \o ResponseField \o <<"\"", ",", "}">>]
DoubledBraceTemplate == [kind |-> "str", text |-> <<"{">> \o ResponseField \o <<"}">>]

FormatTemplates ==
    {DefaultTemplate, PrefixTemplate, BareFieldTemplate, TrailingCommaTemplate,
     DoubledBraceTemplate, DictTemplate(JsonDoc)}
        \cup {DocTemplate(doc) : doc \in JsonDocs}
FormatConfigs ==
    {MkConfig(TextPath, AtAi, sanitize, template, NoLimit) :
        sanitize \in BOOLEAN, template \in FormatTemplates}

InitFormat ==
    /\ arg \in [response : FormatResponses]
    /\ ret = Pending
    /\ config \in FormatConfigs
    /\ client = None /\ connected = FALSE /\ transport = "stopped"
    /\ session = None /\ loop = "running" /\ shutdown_event = FALSE
    /\ tasks = <<>> /\ events = <<>> /\ calls = <<>>

ApplyFormat ==
    /\ ret = Pending
    /\ ret' = [done |-> TRUE, out |-> format_outcome(config, arg.response)]
    /\ UNCHANGED <<arg, bridge_vars>>

NextFormat == ApplyFormat

SpecFormat == InitFormat /\ [][NextFormat]_vars

(***************************************************************************)
(* Spec: the running bridge.  Init is the state start() leaves: the        *)
(* backend session open, the MQTT client connected, its network thread     *)
(* running and _handle_mqtt_message registered as the async handler.       *)
(***************************************************************************)
Event(msg, ev, text) == [msg |-> msg, ev |-> ev, text |-> text]

\* the outcome of the inbound callback for message msg: the events it leaves,
\* the text handed to run_coroutine_threadsafe (scheduled), and whether an
\* exception left the callback
Callback(evs, scheduled, text, raised) ==
    [events |-> evs, scheduled |-> scheduled, text |-> text, raised |-> raised]

\* a dispatch that schedules the handler whatever the trigger said
Dispatch_IgnoreTrigger(msg, text, triggered, loop_state) ==
    Callback(<<Event(msg, "extracted", text),
               Event(msg, IF triggered THEN "trigger_true" ELSE "trigger_false", text),
               Event(msg, "scheduled", text)>>, TRUE, text, FALSE)

\* lines 93-122: triggered is what _should_trigger_ai(extracted_text) returned
Dispatch(msg, text, triggered, loop_state) ==
    IF ~triggered
    THEN Callback(<<Event(msg, "extracted", text), Event(msg, "trigger_false", text)>>,
                  FALSE, <<>>, FALSE)
    ELSE IF loop_state = "running"      \* self._loop and not self._loop.is_closed()
    THEN Callback(<<Event(msg, "extracted", text), Event(msg, "trigger_true", text),
                    Event(msg, "scheduled", text)>>, TRUE, text, FALSE)
    ELSE Callback(<<Event(msg, "extracted", text), Event(msg, "trigger_true", text),
                    Event(msg, "no_loop", <<>>)>>, FALSE, <<>>, FALSE)

\* lines 90-126: extracted is what _extract_text_content(payload) returned
AfterExtract(cfg, msg, extracted, loop_state) ==
    IF extracted.found /\ extracted.text # <<>>        \* if extracted_text:
    THEN IF should_trigger_ai(cfg, extracted.text).raised
         THEN Callback(<<Event(msg, "extracted", extracted.text)>>, FALSE, <<>>, TRUE)
         ELSE Dispatch(msg, extracted.text, should_trigger_ai(cfg, extracted.text).value,
                       loop_state)
    ELSE Callback(<<Event(msg, "no_text", <<>>)>>, FALSE, <<>>, FALSE)

\* lines 84-126, the body of the try of _on_message
on_message_body(cfg, msg, payload, loop_state) ==
    IF ~utf8_decode(payload).ok        \* UnicodeDecodeError, line 84
    THEN Callback(<<Event(msg, "decode_error", <<>>)>>, FALSE, <<>>, TRUE)
    ELSE AfterExtract(cfg, msg, extract_text_content(cfg, utf8_decode(payload).text),
                      loop_state)

\* except Exception, lines 128-129: log and return
CatchCallbackError(msg, body) ==
    IF body.raised
    THEN [body EXCEPT !.raised = FALSE,
                      !.events = @ \o <<Event(msg, "callback_error", <<>>)>>]
    ELSE body

\* a callback without the except clause of lines 128-129
on_message_NoCatch(cfg, msg, payload, loop_state) ==
    on_message_body(cfg, msg, payload, loop_state)

on_message(cfg, msg, payload, loop_state) ==
    CatchCallbackError(msg, on_message_body(cfg, msg, payload, loop_state))

\* f"Error processing message: {str(e)}"
error_prefix ==
    <<"E", "r", "r", "o", "r", " ", "p", "r", "o", "c", "e", "s", "s", "i",
      "n", "g", " ", "m", "e", "s", "s", "a", "g", "e", ":", " ">>
error_response(e) == error_prefix \o e

\* the RuntimeError of generate_response when the session is None
NotConnectedError ==
    <<"O", "l", "l", "a", "m", "a", " ", "c", "l", "i", "e", "n", "t", " ",
      "n", "o", "t", " ", "c", "o", "n", "n", "e", "c", "t", "e", "d", ".",
      " ", "C", "a", "l", "l", " ", "c", "o", "n", "n", "e", "c", "t", "(",
      ")", " ", "f", "i", "r", "s", "t", ".">>

\* what the handler does with the outcome of generate_response: the
\* publish_response calls it makes, the events, and whether an exception left
\* the handler
Handled(cs, evs, raised) == [calls |-> cs, events |-> evs, raised |-> raised]

\* a handler that publishes whatever the backend returned
handle_response_PublishEmpty(msg, response, rc_of) ==
    Handled(<<Call(msg, "reply", response,
                   publish_response(config, client, connected, response, rc_of))>>,
            <<Event(msg, "returned", response), Event(msg, "published", response)>>,
            FALSE)

\* lines 38-48 of _handle_mqtt_message, after generate_response returned
handle_response(msg, response, rc_of) ==
    IF response # <<>>        \* if response:
    THEN Handled(<<Call(msg, "reply", response,
                        publish_response(config, client, connected, response, rc_of))>>,
                 <<Event(msg, "returned", response), Event(msg, "published", response)>>,
                 FALSE)
    ELSE Handled(<<>>, <<Event(msg, "returned", response),
                         Event(msg, "empty_response", <<>>)>>, FALSE)

\* a handler without the except clause of lines 50-55
handle_failure_NoCatch(msg, e, rc_of) ==
    Handled(<<>>, <<Event(msg, "raised", e)>>, TRUE)

\* lines 50-55 of _handle_mqtt_message, after generate_response raised e
handle_failure(msg, e, rc_of) ==
    Handled(<<Call(msg, "error", error_response(e),
                   publish_response(config, client, connected, error_response(e), rc_of))>>,
            <<Event(msg, "raised", e), Event(msg, "error_reply", error_response(e))>>,
            FALSE)

MaxMessages == 2

\* '{"text": "@ai hi"}', '{"text": "hi"}', '@ai hi', '{"other": "@ai"}',
\* an undecodable payload, '{"text": ""}' and '7'
Payloads ==
    { <<"{", "\"", "t", "e", "x", "t", "\"", ":", " ", "\"", "@", "a", "i", " ", "h", "i", "\"", "}">>,
      <<"{", "\"", "t", "e", "x", "t", "\"", ":", " ", "\"", "h", "i", "\"", "}">>,
      <<"@", "a", "i", " ", "h", "i">>,
      <<"{", "\"", "o", "t", "h", "e", "r", "\"", ":", " ", "\"", "@", "a", "i", "\"", "}">>,
      <<"@", "a", "i", BadByte>>,
      <<"{", "\"", "t", "e", "x", "t", "\"", ":", " ", "\"", "\"", "}">>,
      <<"7">> }

\* what the backend returns: nothing, a short text, and a text longer than
\* the limit of LimitedConfigs
BackendResponses ==
    { <<>>,
      <<"o", "k">>,
      <<"a", "a", "a", "a", " ", "a", "a", "a", "a", ".", " ", "a", "a", "a", "a", " ", "a", "a">> }

BackendErrors == {<<"b", "o", "o", "m">>}

BridgeLimits == {NoLimit, Limit(15)}
BridgeConfigs ==
    {MkConfig(path, pattern, FALSE, DefaultTemplate, max_length) :
        path \in {TextPath, OtherPath},
        pattern \in {AtAi, BadPattern},
        max_length \in BridgeLimits}

Init ==
    /\ arg = 0 /\ ret = Pending
    /\ config \in BridgeConfigs
    /\ client = "client" /\ connected = TRUE /\ transport = "running"
    /\ session = "open" /\ loop = "running" /\ shutdown_event = FALSE
    /\ tasks = <<>> /\ events = <<>> /\ calls = <<>>

\* the exception that leaves a callback or a handler
Escaped(msg, out) == IF out.raised THEN <<Event(msg, "escaped", <<>>)>> ELSE <<>>

Task(payload, text, pc) == [payload |-> payload, text |-> text, pc |-> pc]
SetPc(i, pc) == [tasks EXCEPT ![i].pc = pc]

\* the network thread delivers a message: the whole of _on_message
OnMessage ==
    /\ transport = "running" /\ connected
    /\ Len(tasks) < MaxMessages
    /\ \E payload \in Payloads :
          \E out \in {on_message(config, Len(tasks) + 1, payload, loop)} :
             /\ events' = Append(events, <<Event(Len(tasks) + 1, "received", payload)>>
                                         \o out.events \o Escaped(Len(tasks) + 1, out))
             /\ tasks' = Append(tasks, Task(payload, out.text,
                                            IF out.scheduled THEN "scheduled" ELSE "dropped"))
    /\ UNCHANGED <<arg, ret, config, client, connected, transport, session, loop,
                   shutdown_event, calls>>

\* what a finished handler leaves behind
Finish(i, out) ==
    /\ calls' = calls \o out.calls
    /\ events' = [events EXCEPT ![i] = @ \o out.events \o Escaped(i, out)]
    /\ tasks' = SetPc(i, IF out.raised THEN "failed" ELSE "done")

\* a handler that is started only when no generation call is outstanding, as
\* if the wait for the backend held the event loop
HandlerStart_Serial(i) ==
    /\ loop = "running" /\ tasks[i].pc = "scheduled"
    /\ \A j \in 1..Len(tasks) : tasks[j].pc # "awaiting"
    /\ IF session = None
       THEN Finish(i, [handle_failure(i, NotConnectedError,
                                      RcOf(0, error_response(NotConnectedError)))
                       EXCEPT !.events = <<Event(i, "generate", tasks[i].text)>> \o @])
       ELSE /\ events' = [events EXCEPT ![i] = Append(@, Event(i, "generate", tasks[i].text))]
            /\ tasks' = SetPc(i, "awaiting")
            /\ UNCHANGED calls
    /\ UNCHANGED <<arg, ret, config, client, connected, transport, session, loop,
                   shutdown_event>>

\* the event loop starts a scheduled _handle_mqtt_message and runs it up to
\* the request of generate_response; without a session generate_response
\* raises at once
HandlerStart(i) ==
    /\ loop = "running" /\ tasks[i].pc = "scheduled"
    /\ IF session = None
       THEN Finish(i, [handle_failure(i, NotConnectedError,
                                      RcOf(0, error_response(NotConnectedError)))
                       EXCEPT !.events = <<Event(i, "generate", tasks[i].text)>> \o @])
       ELSE /\ events' = [events EXCEPT ![i] = Append(@, Event(i, "generate", tasks[i].text))]
            /\ tasks' = SetPc(i, "awaiting")
            /\ UNCHANGED calls
    /\ UNCHANGED <<arg, ret, config, client, connected, transport, session, loop,
                   shutdown_event>>

\* a handler that gives the event loop back after each client.publish: every
\* step hands over the next chunk of the response, the last one ends the handler
GenerateReturn_YieldBetweenChunks(i) ==
    /\ loop = "running" /\ tasks[i].pc = "awaiting"
    /\ \E response \in BackendResponses, fail_at \in 0..MaxFailAt :
          LET out == handle_response(i, response, RcOf(fail_at, response))
              whole == IF out.calls = <<>> THEN <<>> ELSE out.calls[1].sent
              done == Cardinality({n \in 1..Len(calls) : calls[n].msg = i})
              last == done + 1 >= Len(whole)
          IN /\ calls' = calls \o
                   (IF out.calls = <<>> THEN <<>>
                    ELSE <<[out.calls[1] EXCEPT
                               !.sent = IF whole = <<>> THEN <<>>
                                        ELSE <<whole[Min(done + 1, Len(whole))]>>]>>)
             /\ events' = IF last THEN [events EXCEPT ![i] = @ \o out.events \o Escaped(i, out)]
                          ELSE events
             /\ tasks' = IF last THEN SetPc(i, IF out.raised THEN "failed" ELSE "done")
                         ELSE tasks
    /\ UNCHANGED <<arg, ret, config, client, connected, transport, session, loop,
                   shutdown_event>>

\* generate_response returns and the handler runs to its end
GenerateReturn(i) ==
    /\ loop = "running" /\ tasks[i].pc = "awaiting"
    /\ \E response \in BackendResponses, fail_at \in 0..MaxFailAt :
          Finish(i, handle_response(i, response, RcOf(fail_at, response)))
    /\ UNCHANGED <<arg, ret, config, client, connected, transport, session, loop,
                   shutdown_event>>

\* generate_response raises and the handler runs to its end
GenerateRaise(i) ==
    /\ loop = "running" /\ tasks[i].pc = "awaiting"
    /\ \E e \in BackendErrors, fail_at \in 0..MaxFailAt :
          Finish(i, handle_failure(i, e, RcOf(fail_at, error_response(e))))
    /\ UNCHANGED <<arg, ret, config, client, connected, transport, session, loop,
                   shutdown_event>>

\* _on_disconnect: the broker connection is lost
OnDisconnect ==
    /\ transport = "running" /\ connected
    /\ connected' = FALSE
    /\ UNCHANGED <<arg, ret, config, client, transport, session, loop, shutdown_event,
                   tasks, events, calls>>

\* _on_connect with rc = 0: the network thread has reconnected
OnConnect ==
    /\ transport = "running" /\ ~connected
    /\ connected' = TRUE
    /\ UNCHANGED <<arg, ret, config, client, transport, session, loop, shutdown_event,
                   tasks, events, calls>>

\* signal_handler: SIGINT or SIGTERM
Signal ==
    /\ loop = "running" /\ ~shutdown_event
    /\ shutdown_event' = TRUE
    /\ UNCHANGED <<arg, ret, config, client, connected, transport, session, loop,
                   tasks, events, calls>>

\* stop(), up to the await of the session's close: MQTTClient.disconnect
StopMqtt ==
    /\ shutdown_event /\ transport = "running"
    /\ transport' = "stopped" /\ connected' = FALSE /\ client' = None
    /\ UNCHANGED <<arg, ret, config, session, loop, shutdown_event, tasks, events, calls>>

\* stop(), after the await: OllamaClient.disconnect drops the session
StopSession ==
    /\ transport = "stopped" /\ session = "open"
    /\ session' = None
    /\ UNCHANGED <<arg, ret, config, client, connected, transport, loop, shutdown_event,
                   tasks, events, calls>>

\* asyncio.run returns: the handlers still pending are cancelled
LoopClose ==
    /\ session = None /\ loop = "running"
    /\ loop' = "closed"
    /\ tasks' = [i \in 1..Len(tasks) |->
                    IF tasks[i].pc \in {"scheduled", "awaiting"}
                    THEN [tasks[i] EXCEPT !.pc = "cancelled"] ELSE tasks[i]]
    /\ UNCHANGED <<arg, ret, config, client, connected, transport, session,
                   shutdown_event, events, calls>>

Next ==
    \/ OnMessage
    \/ \E i \in 1..Len(tasks) : HandlerStart(i)
    \/ \E i \in 1..Len(tasks) : GenerateReturn(i)
    \/ \E i \in 1..Len(tasks) : GenerateRaise(i)
    \/ OnDisconnect
    \/ OnConnect
    \/ Signal
    \/ StopMqtt
    \/ StopSession
    \/ LoopClose

Spec == Init /\ [][Next]_vars

(***************************************************************************)
(* SpecSanitize: _sanitize_response applied, with sanitize_response on and *)
(* off, to every text of length <= MaxSanitizeLen over a letter, a space,  *)
(* a newline, a control character, a character that NFKD expands and an    *)
(* emoji.                                                                  *)
(***************************************************************************)
MaxSanitizeLen == 5
SanitizeAlphabet == {"a", " ", "\n", "U+0007", "U+2026", "U+1F600"}

InitSanitize ==
    /\ arg \in [response : SeqsUpTo(SanitizeAlphabet, MaxSanitizeLen),
                sanitize_response : BOOLEAN]
    /\ ret = Pending
    /\ BridgeIdle

ApplySanitize ==
    /\ ret = Pending
    /\ ret' = [done |-> TRUE,
               out |-> sanitize_response([IdleConfig EXCEPT
                                             !.sanitize_response = arg.sanitize_response],
                                         arg.response)]
    /\ UNCHANGED <<arg, bridge_vars>>

NextSanitize == ApplySanitize

SpecSanitize == InitSanitize /\ [][NextSanitize]_vars

(***************************************************************************)
(* SpecConfig: MQTTConfig constructed with every port in ConfigPorts,      *)
(* every qos in ConfigQos and message_max_length None or an integer in     *)
(* -MaxLengthArg..MaxLengthArg, as cli.py passes them by keyword.          *)
(***************************************************************************)
MaxLengthArg == 3
MinPort == 1
MaxPort == 65535
DefaultPort == 1883
MinQos == 0
MaxQos == 2

\* the fields MQTTConfig declares
DeclaredFields ==
    {"broker", "port", "username", "password", "client_id", "subscribe_topic",
     "subscribe_path", "publish_topic", "publish_template", "qos", "retain",
     "sanitize_response", "trigger_pattern", "use_tls", "tls_ca_certs",
     "tls_certfile", "tls_keyfile", "tls_insecure"}

validate_port(v) == MinPort <= v /\ v <= MaxPort
validate_qos(v) == MinQos <= v /\ v <= MaxQos

\* MQTTConfig(**kwargs): a ValidationError (a ValueError) when a declared
\* field fails its constraint; a keyword that names no declared field is
\* ignored, as a BaseModel without model_config does, and is no attribute of
\* the object
MQTTConfig(kwargs) ==
    IF ~validate_port(kwargs.port) \/ ~validate_qos(kwargs.qos)
    THEN [raised |-> TRUE, obj |-> <<>>]
    ELSE [raised |-> FALSE,
          obj |-> [name \in DOMAIN kwargs \cap DeclaredFields |-> kwargs[name]]]

\* hasattr(obj, name)
hasattr(obj, name) == name \in DOMAIN obj

ConfigPorts == {MinPort - 1, MinPort, DefaultPort, MaxPort, MaxPort + 1}
ConfigQos == (MinQos - 1)..(MaxQos + 1)
ConfigLengths == {NoLimit} \cup {Limit(n) : n \in (0 - MaxLengthArg)..MaxLengthArg}

InitConfig ==
    /\ arg \in [port : ConfigPorts, qos : ConfigQos, message_max_length : ConfigLengths]
    /\ ret = Pending
    /\ BridgeIdle

ApplyConfig ==
    /\ ret = Pending
    /\ ret' = [done |-> TRUE, out |-> MQTTConfig(arg)]
    /\ UNCHANGED <<arg, bridge_vars>>

NextConfig == ApplyConfig

SpecConfig == InitConfig /\ [][NextConfig]_vars

(***************************************************************************)
(* Properties of the running bridge, checked under Spec.                   *)
(***************************************************************************)
TaskIds == 1..Len(tasks)
EventIds(msg) == 1..Len(events[msg])
Happened(msg, evs) == \E k \in EventIds(msg) : events[msg][k].ev \in evs
CallsOf(msg, kinds) == {n \in 1..Len(calls) : calls[n].msg = msg /\ calls[n].kind \in kinds}

\* C1: the trigger is evaluated on the extracted text; a generation call for
\* a message comes after a trigger evaluation of that message's text that
\* returned true, and a message whose trigger returned false is never
\* scheduled, never reaches the backend and publishes nothing.
C1_TriggerGatesGeneration ==
    \A msg \in TaskIds : \A k \in EventIds(msg) :
        LET e == events[msg][k]
        IN /\ e.ev \in {"trigger_true", "trigger_false"}
                => /\ k > 1 /\ events[msg][k - 1] = Event(msg, "extracted", e.text)
                   /\ (e.ev = "trigger_true") <=> should_trigger_ai(config, e.text).value
           /\ e.ev = "generate"
                => \E t \in 1..(k - 1) : events[msg][t] = Event(msg, "trigger_true", e.text)
           /\ e.ev = "trigger_false"
                => /\ ~Happened(msg, {"scheduled", "generate"})
                   /\ CallsOf(msg, {"reply", "error"}) = {}
                   /\ tasks[msg].pc = "dropped"

\* one message stopped by a false trigger and another whose handler ran to
\* its end after a generation call
C1_Witness ==
    \E i, j \in TaskIds :
        /\ Happened(i, {"trigger_false"}) /\ tasks[i].pc = "dropped"
        /\ Happened(j, {"generate"}) /\ tasks[j].pc = "done"

NoTextIn(payload) ==
    \/ ~utf8_decode(payload).ok
    \/ ~extract_text_content(config, payload).found
    \/ extract_text_content(config, payload).text = <<>>

\* C2: a message whose payload is not UTF-8, or from which the extractor gets
\* no text, is dropped by the callback: no trigger evaluation, no scheduled
\* handler, no generation call, no publish, and no exception leaves
\* _on_message.
C2_NoTextStops ==
    \A i \in TaskIds :
        NoTextIn(tasks[i].payload)
            => /\ tasks[i].pc = "dropped"
               /\ ~Happened(i, {"trigger_true", "trigger_false", "scheduled", "generate",
                                "escaped"})
               /\ CallsOf(i, {"reply", "error"}) = {}

\* an undecodable payload and a payload without text, both dropped
C2_Witness ==
    \E i, j \in TaskIds :
        /\ ~utf8_decode(tasks[i].payload).ok /\ Happened(i, {"callback_error"})
        /\ utf8_decode(tasks[j].payload).ok /\ Happened(j, {"no_text"})

\* C3: after generate_response returned an empty text for a message there is
\* no publish_response call for that message, only the warning.
C3_EmptyResponseNotPublished ==
    \A msg \in TaskIds :
        Event(msg, "returned", <<>>) \in {events[msg][k] : k \in EventIds(msg)}
            => /\ CallsOf(msg, {"reply", "error"}) = {}
               /\ Happened(msg, {"empty_response"})
               /\ tasks[msg].pc = "done"

\* an empty response on a bridge that could have published
C3_Witness ==
    /\ client # None /\ connected
    /\ \E msg \in TaskIds : \E k \in EventIds(msg) :
          events[msg][k] = Event(msg, "returned", <<>>)

\* C4: after generate_response raised for a message the handler ends
\* normally: no exception leaves it, no reply is published for the message,
\* and publish_response is called at most once, with the error text.
C4_FailureCaught ==
    \A msg \in TaskIds : \A k \in EventIds(msg) :
        events[msg][k].ev = "raised"
            => /\ ~Happened(msg, {"escaped", "published"})
               /\ tasks[msg].pc = "done"
               /\ CallsOf(msg, {"reply"}) = {}
               /\ Cardinality(CallsOf(msg, {"error"})) <= 1
               /\ \A n \in CallsOf(msg, {"error"}) :
                     calls[n].response = error_response(events[msg][k].text)

\* a backend error whose error reply reached the transport, in chunks
C4_Witness ==
    \E msg \in TaskIds : \E k \in EventIds(msg) :
        /\ events[msg][k].ev = "raised" /\ events[msg][k].text \in BackendErrors
        /\ \E n \in CallsOf(msg, {"error"}) : Len(calls[n].sent) > 1

(***************************************************************************)
(* Properties of the publish path, checked under SpecPublish.              *)
(***************************************************************************)
Limited == Truthy(config.message_max_length)
max_length == config.message_max_length[1]
Sanitized(response) == sanitize_response(config, response)
CallIds == 1..Len(calls)

\* C5: on a ready client with a limit that passes the prefix-budget check,
\* _chunk_text is called exactly when the sanitized response is longer than
\* the limit, and it is called on the sanitized response.
C5_SanitizeBeforeChunking ==
    \A n \in CallIds :
        LET c == calls[n]
        IN c.ready /\ Limited /\ max_length > prefix_space
           => /\ (c.chunker # <<>>) <=> (Len(Sanitized(c.response)) > max_length)
              /\ c.chunker # <<>> => c.chunker[1].text = Sanitized(c.response)

\* C6: with the template "{response}", every payload published for a response
\* that went through _chunk_text is at most message_max_length long.
C6_ChunkPayloadWithinLimit ==
    \A n \in CallIds :
        LET c == calls[n]
        IN config.publish_template = DefaultTemplate /\ c.chunker # <<>>
           => \A k \in 1..Len(c.sent) : Len(c.sent[k].payload) <= max_length

C7_Label(k, total) == NatToStr(k) \o <<"/">> \o NatToStr(total) \o <<":", " ">>
\* the template filled with a text as it is, without sanitizing
C7_Template(text) == FormatWith(config.publish_template, text, text).text

\* C7: a response chunked into N pieces is published in exactly N client.publish
\* calls, the k-th carrying the template filled with "k/N: " followed by the
\* k-th chunk.
C7_LabelledChunksPublished ==
    \A n \in CallIds :
        LET c == calls[n]
            total == Len(c.chunks)
        IN c.chunker # <<>>
           => /\ Len(c.sent) = total
              /\ \A k \in 1..total :
                    c.sent[k].payload = C7_Template(C7_Label(k, total) \o c.chunks[k])

\* What does hold for every configuration: one client.publish per chunk, in
\* index order and whatever rc the earlier publishes returned, the k-th
\* carrying _format_response of the labelled chunk (sanitized after
\* labelling when sanitize_response is on).
ChunksFormattedInOrder ==
    \A n \in CallIds :
        LET c == calls[n]
            total == Len(c.chunks)
        IN c.chunker # <<>>
           => /\ Len(c.sent) = total
              /\ \A k \in 1..total :
                    c.sent[k].payload
                        = format_response(config, C7_Label(k, total) \o c.chunks[k])
              /\ ~config.sanitize_response
                    => \A k \in 1..total :
                          c.sent[k].payload = C7_Template(C7_Label(k, total) \o c.chunks[k])

C8_AiPrefix == <<"A", "I", ":", " ">>
C8_JsonReply(text) ==
    JObj(<< <<<<"r", "e", "s", "p", "o", "n", "s", "e">>, JStr(text)>>,
            <<<<"t", "y", "p", "e">>, JStr(<<"a", "i">>)>> >>)

\* C8: a ready client given a non-empty response that needs no chunking makes
\* exactly one client.publish call; its payload is the template filled with
\* the sanitized response, and the response itself when the template is
\* "{response}" and sanitize_response is off.
C8_SinglePublish ==
    \A n \in CallIds :
        LET c == calls[n]
            payload == c.sent[1].payload
        IN c.ready /\ c.response # <<>>
              /\ (~Limited \/ Len(c.response) <= max_length)
           => /\ Len(c.sent) = 1
              /\ payload = format_response(config, c.response)
              /\ config.publish_template = DefaultTemplate
                    => payload = Sanitized(c.response)
              /\ config.publish_template = PrefixTemplate
                    => payload = C8_AiPrefix \o Sanitized(c.response)
              /\ config.publish_template = JsonTemplate
                    => json_loads(payload)
                        = [ok |-> TRUE, val |-> C8_JsonReply(Sanitized(c.response))]
              /\ config.publish_template = DefaultTemplate /\ ~config.sanitize_response
                    => payload = c.response

\* a response of exactly the limit that sanitizing changes, published once
\* through the JSON template
C8_Witness ==
    \E n \in CallIds :
        /\ calls[n].ready /\ Limited /\ Len(calls[n].response) = max_length
        /\ Sanitized(calls[n].response) # calls[n].response
        /\ config.publish_template = JsonTemplate
        /\ Len(calls[n].sent) = 1

\* C9: a ready client given a response longer than a limit that does not exceed
\* the prefix reservation publishes nothing, logs exactly one error and raises
\* nothing.
C9_RefusedBelowReservation ==
    \A n \in CallIds :
        LET c == calls[n]
        IN c.ready /\ Limited /\ Len(c.response) > max_length
              /\ max_length <= prefix_space
           => c.sent = <<>> /\ Len(c.errors) = 1 /\ ~c.raised /\ c.chunker = <<>>

C9_Witness ==
    \E n \in CallIds :
        /\ calls[n].ready /\ Limited /\ max_length = prefix_space
        /\ Len(calls[n].response) > max_length
        /\ calls[n].errors = <<"Message max length too small for chunking">>

\* the chunks whose client.publish returned an rc other than MQTT_ERR_SUCCESS
FailedChunks(c) == {k \in 1..Len(c.sent) : c.sent[k].rc # MQTT_ERR_SUCCESS}

\* C20: within one chunked response every chunk is handed to client.publish
\* at most once: a failed publish of chunk k is not retried, the chunks
\* before it are not handed over again, and the chunks k+1..N are still
\* handed over, in order.
C20_ChunkHandoffsIndependent ==
    \A n \in CallIds :
        LET c == calls[n]
            total == Len(c.chunks)
            labelled(k) == format_response(config, C7_Label(k, total) \o c.chunks[k])
        IN (c.chunker # <<>> /\ c.ready)
           => \A k \in FailedChunks(c) :
                 \* one hand-over per chunk: chunk j at position j and nowhere else
                 /\ Len(c.sent) = total
                 /\ \A j \in 1..total : c.sent[j].payload = labelled(j)
                 \* the failure is logged once, and nothing else is
                 /\ Len(c.errors) = Cardinality(FailedChunks(c))
                 /\ ~c.raised

\* the second of at least three chunks failed; the first had been published
\* and the third was published after the failure
C20_Witness ==
    \E n \in CallIds :
        /\ calls[n].chunker # <<>> /\ Len(calls[n].chunks) >= 3
        /\ FailedChunks(calls[n]) = {2}
        /\ calls[n].sent[3].payload
              = format_response(config, C7_Label(3, Len(calls[n].chunks)) \o calls[n].chunks[3])

(***************************************************************************)
(* Properties of _chunk_text, checked under SpecChunk.                     *)
(***************************************************************************)
\* C10: every chunk returned by chunk_text(t, maxLength), maxLength >= 1, has
\* length at most maxLength.
C10_ChunkWithinLimit ==
    ret.done => \A k \in 1..Len(ret.chunks) : Len(ret.chunks[k]) <= arg.chunk_size

\* a first chunk cut by the look-back search one character before the limit,
\* followed by more text
C10_Witness ==
    /\ ret.done /\ arg.chunk_size = MaxChunkSize /\ Len(ret.chunks) >= 2
    /\ Len(ret.chunks[1]) = arg.chunk_size - 1
    /\ ret.chunks[1][arg.chunk_size - 1] = "."

NotWhitespace(c) == c \notin Whitespace
WithoutWhitespace(text) == SelectSeq(text, NotWhitespace)

\* C11: for every text t and maxLength >= 1 the chunks of chunk_text(t,
\* maxLength), concatenated in order, equal t once whitespace is removed from
\* both: no other character is lost, duplicated or reordered.
C11_ChunksReconstructText ==
    ret.done => WithoutWhitespace(Concat(ret.chunks)) = WithoutWhitespace(arg.text)

\* a text cut into several chunks whose concatenation differs from the text
\* (whitespace was trimmed or a blank chunk dropped) and that has letters
\* and punctuation on both sides of a cut
C11_Witness ==
    /\ ret.done /\ Len(ret.chunks) >= 3
    /\ Concat(ret.chunks) # arg.text
    /\ "." \in {ret.chunks[1][i] : i \in 1..Len(ret.chunks[1])}
    /\ "a" \in {ret.chunks[3][i] : i \in 1..Len(ret.chunks[3])}

\* C12: for every text t with len(t) <= maxLength, chunk_text(t, maxLength)
\* is the one-element list [t], t unchanged.
C12_ShortTextOneChunk ==
    (ret.done /\ Len(arg.text) <= arg.chunk_size) => ret.chunks = <<arg.text>>

\* a text no longer than the chunk size that the filter of line 419 would
\* have dropped (only whitespace), and one exactly as long as the chunk size
\* that ends in whitespace
C12_Witness ==
    /\ ret.done /\ ret.chunks = <<arg.text>>
    /\ \/ arg.text # <<>> /\ Strip(arg.text) = <<>> /\ Len(arg.text) < arg.chunk_size
       \/ Len(arg.text) = arg.chunk_size /\ arg.text[Len(arg.text)] = " "
                                        /\ arg.text[1] = "a"

(***************************************************************************)
(* Properties of _should_trigger_ai, checked under SpecTrigger.            *)
(***************************************************************************)
\* the pattern compiles
re_compiles(pattern) == re_valid(pattern) /\ ~re_overflow(pattern)

\* C13: _should_trigger_ai(text) never raises, and returns true exactly when
\* the pattern is invalid or a search of the pattern finds a match anywhere
\* in the text.
C13_TriggerTotalFailOpen ==
    ret.done
       => /\ ~ret.out.raised
          /\ ret.out.value <=> (\/ ~re_compiles(arg.trigger_pattern)
                                \/ re_search(arg.trigger_pattern, arg.message))

\* What does hold: when the call returns, it returns true exactly when the
\* pattern is an re.error or the search finds a match.
TriggerFailOpenOnReError ==
    (ret.done /\ ~ret.out.raised)
       => (ret.out.value <=> (\/ ~re_valid(arg.trigger_pattern)
                              \/ re_search(arg.trigger_pattern, arg.message)))

(***************************************************************************)
(* Properties of _extract_text_content, checked under SpecExtract.         *)
(***************************************************************************)
\* C14: for a payload that does not parse as JSON, _extract_text_content
\* returns the payload verbatim when the path is "$" or "$.text", and None
\* for every other path.
C14_PlainTextPayload ==
    (ret.done /\ ~json_loads(arg.payload).ok)
       => /\ arg.subscribe_path \in {RootPath, TextPath} => ret.out = SomeText(arg.payload)
          /\ arg.subscribe_path \notin {RootPath, TextPath} => ret.out = NoText

\* the plain text 'hello @ai' was returned as it is for "$.text"
C14_Witness ==
    /\ ret.done /\ arg.subscribe_path = TextPath
    /\ arg.payload = <<"h", "e", "l", "l", "o", " ", "@", "a", "i">>
    /\ ret.out = SomeText(arg.payload)

\* the matches of the path in a parsed document; a path that does not parse
\* matches nothing
MatchesOf(path, payload) ==
    IF jsonpath_parses(path) THEN jsonpath_find(path, json_loads(payload).val) ELSE <<>>

\* C15: for a payload that parses as JSON (object, array or scalar),
\* _extract_text_content returns str() of the first match of the path when
\* there is a match, and None when there is none.
C15_StructuredPayload ==
    (ret.done /\ json_loads(arg.payload).ok)
       => /\ MatchesOf(arg.subscribe_path, arg.payload) # <<>>
                => ret.out = SomeText(py_str(MatchesOf(arg.subscribe_path, arg.payload)[1]))
          /\ MatchesOf(arg.subscribe_path, arg.payload) = <<>> => ret.out = NoText

\* the wildcard on '{"a": 1, "text": "x"}' has two matches and the first, the
\* number 1, was returned as "1"
C15_Witness ==
    /\ ret.done /\ arg.subscribe_path = StarPath
    /\ arg.payload = <<"{", "\"", "a", "\"", ":", " ", "1", ",", " ", "\"", "t", "e", "x", "t", "\"", ":", " ", "\"", "x", "\"", "}">>
    /\ Len(MatchesOf(arg.subscribe_path, arg.payload)) = 2
    /\ ret.out = SomeText(<<"1">>)

(***************************************************************************)
(* Properties of _format_response, checked under SpecFormat.               *)
(***************************************************************************)
\* a document with every "{response}" in its string values replaced by a
\* text; keys, numbers and the structure stay as they are
RECURSIVE Fill(_, _)
Fill(doc, text) ==
    IF doc.t = "str" THEN JStr(Replace(doc.v, ResponseField, text))
    ELSE IF doc.t = "arr" THEN JArr([i \in 1..Len(doc.v) |-> Fill(doc.v[i], text)])
    ELSE IF doc.t = "obj"
    THEN JObj([i \in 1..Len(doc.v) |-> <<doc.v[i][1], Fill(doc.v[i][2], text)>>])
    ELSE doc

FilledBy(docs) ==
    \A doc \in docs :
        (ret.done /\ config.publish_template = DocTemplate(doc))
           => /\ ~ret.out.raised
              /\ json_loads(ret.out.text)
                    = [ok |-> TRUE, val |-> Fill(doc, Sanitized(arg.response))]

\* C16: for a string template that is a JSON document with "{response}"
\* inside string values, and every response (quotes, braces and backslashes
\* included), _format_response returns text that parses as JSON to the
\* template's document with the same keys and the same other values, each
\* "{response}" replaced by exactly the response text.
C16_JsonTemplateFilled == FilledBy(JsonDocs)

\* What does hold: the same for the documents that do not hold the marker
\* text __RESPONSE_PLACEHOLDER__ themselves.
JsonTemplateFilledWithoutMarker == FilledBy({JsonDoc, NestedDoc})

\* C17: when formatting fails inside _format_response, it returns the
\* sanitized response, without any template text, and raises nothing.
C17_FailureReturnsSanitized ==
    (ret.done /\ ret.out.raised) => ret.out.text = Sanitized(arg.response)

\* What does hold: a failed formatting returns the response as it was given.
FailureReturnsResponse ==
    (ret.done /\ ret.out.raised) => ret.out.text = arg.response

\* the string template is in braces and is no JSON once "{response}" is
\* replaced by the marker
NotJsonInBraces(template) ==
    /\ template.kind = "str" /\ LooksLikeJson(template.text)
    /\ ~json_loads(Replace(template.text, ResponseField, PLACEHOLDER)).ok

\* C18: for a string template that starts with "{" and ends with "}" and
\* does not parse as JSON after the marker substitution, _format_response
\* returns the template with every "{response}" replaced by the response
\* and every other character, braces included, unchanged.
C18_FallbackLiteralReplace ==
    (ret.done /\ NotJsonInBraces(config.publish_template))
       => ret.out.text
            = Replace(config.publish_template.text, ResponseField, Sanitized(arg.response))

\* What does hold: the fallback is str.format, which gives the literal
\* replacement only when the template has no brace outside "{response}".
FallbackIsStrFormat ==
    (ret.done /\ NotJsonInBraces(config.publish_template))
       => /\ ret.out.raised
             <=> ~py_format(config.publish_template.text, Sanitized(arg.response)).ok
          /\ config.publish_template = DefaultTemplate
                => ret.out = Formatted(Sanitized(arg.response))

\* C19: for a dict template, _format_response returns json.dumps of the
\* dict with every "{response}" replaced literally by the response, as text.
C19_DictTemplateReplaced ==
    (ret.done /\ config.publish_template.kind = "dict")
       => ret.out.text
            = Replace(json_dumps(config.publish_template.value), ResponseField,
                      Sanitized(arg.response))

\* What does hold: json.dumps of a dict starts with "{", which str.format
\* reads as the start of a field named by a key, so formatting fails and the
\* response is returned as it was given.
DictTemplateFails ==
    (ret.done /\ config.publish_template.kind = "dict")
       => ret.out = FormatFailed(arg.response)

\* C21: once the shutdown signal has been observed, no message that arrives
\* afterwards has its handler scheduled, whatever the interleaving of the
\* network thread with the shutdown sequence.
C21_NoScheduleAfterSignal ==
    [][shutdown_event
          => \A i \in 1..Len(tasks') : i > Len(tasks) => tasks'[i].pc # "scheduled"]_vars

\* What does hold: the network thread stops delivering with disconnect(),
\* which stop() calls only after the signal; from then on nothing arrives.
NoArrivalAfterDisconnect ==
    [][transport = "stopped" => Len(tasks') = Len(tasks)]_vars

\* C22: while the generation call of one message is suspended, the network
\* thread can still deliver a further message and the event loop can still
\* start the handler of a scheduled one, so several messages can be waiting
\* for their generation call at the same time.
Generating == {i \in TaskIds : tasks[i].pc = "awaiting"}

C22_ReceiveWhileGenerating ==
    Generating # {}
       => /\ (transport = "running" /\ connected /\ Len(tasks) < MaxMessages)
                => ENABLED OnMessage
          /\ \A j \in TaskIds :
                (loop = "running" /\ tasks[j].pc = "scheduled") => ENABLED HandlerStart(j)

C22_Witness == \E i, j \in Generating : i # j

\* C23: MQTTConfig accepts message_max_length when it is None or a positive
\* integer and keeps it readable on the object, and raises a validation error
\* when it is zero or negative (the other fields being valid).
C23_MaxLengthValidated ==
    (ret.done /\ validate_port(arg.port) /\ validate_qos(arg.qos))
       => IF arg.message_max_length = NoLimit \/ arg.message_max_length[1] > 0
          THEN /\ ~ret.out.raised
               /\ hasattr(ret.out.obj, "message_max_length")
               /\ ret.out.obj.message_max_length = arg.message_max_length
          ELSE ret.out.raised

\* What does hold: the keyword is ignored; construction fails for a bad port
\* or qos only, and the object never has the attribute.
MaxLengthIgnored ==
    ret.done
       => /\ ret.out.raised <=> ~(validate_port(arg.port) /\ validate_qos(arg.qos))
          /\ ~ret.out.raised
                => /\ ~hasattr(ret.out.obj, "message_max_length")
                   /\ ret.out.obj.port = arg.port /\ ret.out.obj.qos = arg.qos

\* C24: when the rest of the text does not fit in the next window of
\* chunk_size characters, the cut falls just after the last break character
\* among the final min(chunk_size / 5, 50) characters of the window, and falls
\* on the window boundary if and only if that range holds no break character.
\* Positions count characters from 1, so a cut "at p" keeps text[p].
C24_Range(chunk_size, start) ==
    (start + chunk_size - Min(chunk_size \div 5, 50) + 1)..(start + chunk_size)

C24_Breaks(text, chunk_size, start) ==
    {p \in C24_Range(chunk_size, start) : text[p] \in BreakChars}

C24_Cut(text, chunk_size, start) ==
    IF C24_Breaks(text, chunk_size, start) = {} THEN start + chunk_size
    ELSE CHOOSE p \in C24_Breaks(text, chunk_size, start) :
            \A q \in C24_Breaks(text, chunk_size, start) : q <= p

\* the cursors at which the rest of the text does not fit in one window
RECURSIVE C24_Cursors(_, _, _)
C24_Cursors(text, chunk_size, start) ==
    IF start + chunk_size >= Len(text) THEN {}
    ELSE {start} \cup C24_Cursors(text, chunk_size, break_point(text, chunk_size, start))

\* the chunks that the cuts of the claim give
RECURSIVE C24_Chunks(_, _, _)
C24_Chunks(text, chunk_size, start) ==
    IF start + chunk_size >= Len(text) THEN <<SubSeq(text, start + 1, Len(text))>>
    ELSE <<RStrip(SubSeq(text, start + 1, C24_Cut(text, chunk_size, start)))>>
            \o C24_Chunks(text, chunk_size, C24_Cut(text, chunk_size, start))

C24_CutAfterLastBreak ==
    (ret.done /\ Len(arg.text) > arg.chunk_size)
       => /\ ret.chunks = SelectSeq(C24_Chunks(arg.text, arg.chunk_size, 0), NonBlank)
          /\ \A start \in C24_Cursors(arg.text, arg.chunk_size, 0) :
                /\ break_point(arg.text, arg.chunk_size, start)
                      = C24_Cut(arg.text, arg.chunk_size, start)
                /\ break_point(arg.text, arg.chunk_size, start) = start + arg.chunk_size
                      <=> C24_Breaks(arg.text, arg.chunk_size, start) = {}

\* C24, amended: the cut falls just after the last break character of the
\* look-back range, and on the window boundary when the range holds none; it
\* falls on the boundary as well when the last character of the window is
\* itself a break character.
C24_CutAfterLastBreakOrAtBoundary ==
    (ret.done /\ Len(arg.text) > arg.chunk_size)
       => /\ ret.chunks = SelectSeq(C24_Chunks(arg.text, arg.chunk_size, 0), NonBlank)
          /\ \A start \in C24_Cursors(arg.text, arg.chunk_size, 0) :
                /\ break_point(arg.text, arg.chunk_size, start)
                      = C24_Cut(arg.text, arg.chunk_size, start)
                /\ break_point(arg.text, arg.chunk_size, start) = start + arg.chunk_size
                      <=> \/ C24_Breaks(arg.text, arg.chunk_size, start) = {}
                          \/ arg.text[start + arg.chunk_size] \in BreakChars

\* a cut before the window boundary, in a window that holds an earlier break
\* character as well
C24_Witness ==
    /\ ret.done /\ Len(arg.text) > arg.chunk_size
    /\ \E start \in C24_Cursors(arg.text, arg.chunk_size, 0) :
          /\ break_point(arg.text, arg.chunk_size, start) < start + arg.chunk_size
          /\ \E p \in (start + 1)..(break_point(arg.text, arg.chunk_size, start) - 1) :
                arg.text[p] \in BreakChars

\* C25: no chunk returned for a text longer than chunk_size ends in a
\* whitespace character, the final chunk included.
C25_NoTrailingWhitespace ==
    (ret.done /\ Len(arg.text) > arg.chunk_size)
       => \A k \in 1..Len(ret.chunks) :
             ret.chunks[k] # <<>> /\ ret.chunks[k][Len(ret.chunks[k])] \notin Whitespace

\* What does hold: every chunk but the last is trimmed, and the last is the
\* untrimmed rest of the text.
AllButLastTrimmed ==
    (ret.done /\ Len(arg.text) > arg.chunk_size)
       => \A k \in 1..Len(ret.chunks) :
             \/ ret.chunks[k] = RStrip(ret.chunks[k])
             \/ /\ k = Len(ret.chunks)
                /\ \E start \in 0..Len(arg.text) :
                      ret.chunks[k] = SubSeq(arg.text, start + 1, Len(arg.text))

\* the text that fills the template for the k-th chunk of a call
C26_Text(c, k) == Sanitized(C7_Label(k, Len(c.chunks)) \o c.chunks[k])

\* text is the label k/N followed by a body that is not empty and not
\* whitespace only
C26_LabelledBody(text, k, total) ==
    /\ Len(text) > Len(C7_Label(k, total))
    /\ SubSeq(text, 1, Len(C7_Label(k, total))) = C7_Label(k, total)
    /\ NonBlank(SubSeq(text, Len(C7_Label(k, total)) + 1, Len(text)))

\* C26: the N publishes of a chunked response carry the labels 1/N, 2/N, ...,
\* N/N in this order, N being the number of publishes, each followed by a
\* chunk body that is neither empty nor whitespace only.
C26_NoEmptyChunkBody ==
    \A n \in CallIds :
        LET c == calls[n]
        IN c.chunker # <<>>
           => /\ Len(c.sent) = Len(c.chunks)
              /\ \A k \in 1..Len(c.sent) :
                    /\ c.sent[k].payload = C7_Template(C26_Text(c, k))
                    /\ C26_LabelledBody(C26_Text(c, k), k, Len(c.sent))

\* What does hold: the chunks that _chunk_text returns are never blank, and
\* with sanitize_response off every publish carries its label and such a chunk.
ChunkBodiesUnsanitized ==
    \A n \in CallIds :
        LET c == calls[n]
        IN c.chunker # <<>>
           => /\ Len(c.sent) = Len(c.chunks)
              /\ \A k \in 1..Len(c.chunks) : NonBlank(c.chunks[k])
              /\ ~config.sanitize_response
                    => \A k \in 1..Len(c.sent) :
                          /\ c.sent[k].payload = C7_Template(C26_Text(c, k))
                          /\ C26_LabelledBody(C26_Text(c, k), k, Len(c.sent))

\* C27: with sanitize_response on, the text that _sanitize_response returns
\* holds ASCII characters only and no control character, neither starts nor
\* ends with whitespace, and holds no two whitespace characters side by side.
C27_SanitizedClean ==
    (ret.done /\ arg.sanitize_response)
       => /\ \A k \in 1..Len(ret.out) :
                IsAscii(ret.out[k]) /\ ret.out[k] \notin ControlChars
          /\ ret.out # <<>>
                => ret.out[1] \notin Whitespace /\ ret.out[Len(ret.out)] \notin Whitespace
          /\ \A k \in 1..(Len(ret.out) - 1) :
                ~(ret.out[k] \in Whitespace /\ ret.out[k + 1] \in Whitespace)

\* a control character between two spaces inside the text: its removal
\* leaves the spaces side by side
C27_Witness ==
    /\ ret.done /\ arg.sanitize_response
    /\ \E k \in 2..(Len(arg.response) - 3) :
          /\ arg.response[k - 1] = "a" /\ arg.response[k] = " "
          /\ arg.response[k + 1] = "U+0007"
          /\ arg.response[k + 2] = " " /\ arg.response[k + 3] = "a"
    /\ ret.out = <<"a", " ", "a">>

\* C28: every call of _chunk_text made by publish_response has a chunk size
\* of at least 1; at every cursor from which the rest of the text does not
\* fit in one chunk the next cursor lies further on, and the call returns at
\* most Len(text) chunks.
C28_ChunkerTerminates ==
    \A n \in CallIds :
        calls[n].chunker # <<>>
           => LET text == calls[n].chunker[1].text
                  chunk_size == calls[n].chunker[1].chunk_size
              IN /\ chunk_size >= 1
                 /\ \A start \in 0..(Len(text) - chunk_size - 1) :
                       break_point(text, chunk_size, start) > start
                 /\ Len(calls[n].chunks) <= Len(text)

\* the smallest chunk size, with as many chunks as the text has characters
C28_Witness ==
    \E n \in CallIds :
        /\ calls[n].chunker # <<>>
        /\ calls[n].chunker[1].chunk_size = 1
        /\ Len(calls[n].chunks) = Len(calls[n].chunker[1].text)
        /\ Len(calls[n].chunks) > 1

\* the same under SpecChunk, for every chunk size in 1..MaxChunkSize
ChunkLoopAdvances ==
    ret.done
       => /\ \A start \in 0..(Len(arg.text) - arg.chunk_size - 1) :
                break_point(arg.text, arg.chunk_size, start) > start
          /\ Len(ret.chunks) <= Max(Len(arg.text), 1)

\* C29: a publish_response call entered with no client or with the connected
\* flag off hands nothing to the transport and raises nothing, so a
\* generation call that returns after a disconnect or after stop() ends its
\* handler without a publish and without an exception.
C29_NoPublishWhenNotReady ==
    \A n \in CallIds :
        ~calls[n].ready
           => /\ calls[n].sent = <<>> /\ calls[n].chunker = <<>>
              /\ calls[n].errors = <<"Cannot publish: not connected">>
              /\ ~calls[n].raised
              /\ tasks[calls[n].msg].pc # "failed"
              /\ ~Happened(calls[n].msg, {"escaped"})

\* a reply that arrives after stop() has disconnected the client, and one
\* that arrives while the connection is lost
C29_Witness ==
    /\ \E n \in CallIds :
          /\ ~calls[n].ready /\ calls[n].kind = "reply" /\ calls[n].response # <<>>
          /\ transport = "stopped" /\ client = None
          /\ tasks[calls[n].msg].pc = "done"
    /\ \E n \in CallIds : calls[n].ready /\ calls[n].sent # <<>>

\* the client.publish calls of all handlers, in the order they were made
PublishLog ==
    Concat([n \in 1..Len(calls) |->
               [k \in 1..Len(calls[n].sent) |->
                   [msg |-> calls[n].msg, payload |-> calls[n].sent[k].payload]]])

\* C30: between two publishes made for one message, the first and the last
\* chunk of its response among them, every publish is made for that message:
\* the chunks of a response are never interleaved with the publishes of
\* another message.
C30_ChunksContiguous ==
    \A log \in {PublishLog} :
        \A p, r \in 1..Len(log) :
            (p < r /\ log[p].msg = log[r].msg)
               => \A q \in p..r : log[q].msg = log[p].msg

\* two messages whose generation calls overlapped, the second answered first,
\* both with a chunked response
C30_Witness ==
    /\ Len(calls) = 2
    /\ calls[1].msg = 2 /\ calls[2].msg = 1
    /\ Len(calls[1].sent) > 1 /\ Len(calls[2].sent) > 1

====
